---------------------------- MODULE Spec2Model ----------------------------
(***************************************************************************)
(* Verified Build Witness (VBW) tooling of SCQCS: the Bundle Assembler     *)
(* (vbw/build.rs, run_build), the Co-signer (main.rs, cmd_attest) and the  *)
(* Bundle Verifier (vbw/verify.rs, run_verify) over a bundle directory.    *)
(*                                                                         *)
(* Byte strings are modelled by what the program can tell about them:      *)
(*   a JSON text is its parsed value together with its layout (the         *)
(*   pretty rendering, the pretty rendering with one whitespace byte       *)
(*   changed, or the canonical sorted-key compact rendering); a hex digest *)
(*   names the bytes it was computed from (SHA-256 taken as collision      *)
(*   free); a signature names its signing key and the signed bytes         *)
(*   (Ed25519 taken as unforgeable).  File and directory names are         *)
(*   sequences of characters, paths are sequences of names relative to the *)
(*   bundle directory.                                                     *)
(***************************************************************************)
EXTENDS Integers, Sequences, FiniteSets, TLC

VARIABLES
    pc,        \* "init", "assembled", "verifying", "done"
    root,      \* the bundle path itself: "absent", "dir" or "file"
    bundle,    \* the entries under the bundle directory: path -> entry
    workdir,   \* state of each declared artifact file in the working directory
    inputs,    \* the inputs the Assembler was run with (history)
    mods,      \* the changes made to the bundle after assembly (history)
    vs,        \* the Verifier's local state (stage, errors, warnings, ...)
    deep       \* whether changes to the bundle's shape may be combined

vars == <<pc, root, bundle, workdir, inputs, mods, vs, deep>>

----------------------------------------------------------------------------
(* Bounds of the model *)

MaxArtifacts == 1   \* artifacts declared in outputs.json
MaxCosign == 2      \* co-signature files the Co-signer writes into a bundle
MaxLines == 2       \* lines the build command prints on each stream
PipeCapacity == 1   \* lines a pipe holds before the writer blocks
MaxKeyIdLen == 2    \* characters of a --key-id

----------------------------------------------------------------------------
(* Option values *)

None == [some |-> FALSE]
Some(x) == [some |-> TRUE, val |-> x]

(* Names, as character sequences *)

N_manifest == <<"m","a","n","i","f","e","s","t",".","j","s","o","n">>
N_environment == <<"e","n","v","i","r","o","n","m","e","n","t",".","j","s","o","n">>
N_materials == <<"m","a","t","e","r","i","a","l","s",".","l","o","c","k",".","j","s","o","n">>
N_outputs == <<"o","u","t","p","u","t","s",".","j","s","o","n">>
N_transcript == <<"t","r","a","n","s","c","r","i","p","t",".","t","x","t">>
N_policy == <<"p","o","l","i","c","y",".","j","s","o","n">>
N_signatures == <<"s","i","g","n","a","t","u","r","e","s">>
N_hashes == <<"h","a","s","h","e","s">>
N_manifest_sha256 == <<"m","a","n","i","f","e","s","t",".","s","h","a","2","5","6">>
SigSuffix == <<".","e","d","2","5","5","1","9",".","s","i","g">>
N_builder == <<"b","u","i","l","d","e","r">>
N_builder_sig == N_builder \o SigSuffix

P_manifest == <<N_manifest>>
P_environment == <<N_environment>>
P_materials == <<N_materials>>
P_outputs == <<N_outputs>>
P_transcript == <<N_transcript>>
P_policy == <<N_policy>>
P_signatures == <<N_signatures>>
P_hashes == <<N_hashes>>
P_builder_sig == <<N_signatures, N_builder_sig>>
P_manifest_sha256 == <<N_hashes, N_manifest_sha256>>

(* REQUIRED_FILES, in the order of the source *)
REQUIRED_FILES ==
    << P_manifest, P_environment, P_materials, P_outputs, P_transcript,
       P_policy, P_builder_sig, P_manifest_sha256 >>

RequiredSet == {REQUIRED_FILES[i] : i \in 1..Len(REQUIRED_FILES)}

(* The three reproducibility modes *)
Modes == {"A_DETERMINISTIC", "B_LOCKED_NETWORK", "C_WITNESSED_ND"}

----------------------------------------------------------------------------
(* Byte strings *)

JsonText(v, layout) == [kind |-> "json", val |-> v, layout |-> layout]
PlainText(tag) == [kind |-> "text", tag |-> tag]
NotUtf8 == [kind |-> "binary"]

(* serde_json::to_string_pretty: the struct's fields in declaration order, *)
(* indented                                                                 *)
to_string_pretty(v) == JsonText(v, "pretty")

(* a canonical encoder that keeps the pretty layout *)
canonical_manifest_bytes_Pretty(m) == JsonText(m, "pretty")

(* canonical_manifest_bytes: to_value, then keys sorted, no whitespace *)
canonical_manifest_bytes(m) == JsonText(m, "canonical")

(* hash::sha256_hex: the hex digest of a byte string *)
sha256_hex(bytes) == [kind |-> "hex", of |-> bytes]

(* fs::read_to_string: fails on bytes that are not UTF-8 *)
read_to_string(bytes) ==
    IF bytes.kind = "binary" THEN None ELSE Some(bytes)

(* serde_json::from_str::<T>: the value, when the text is JSON of shape T *)
from_str(T, text) ==
    IF text.kind = "json" /\ text.val.type = T THEN Some(text.val) ELSE None

----------------------------------------------------------------------------
(* Signature primitive (sign.rs) *)

SecretKeys == {"sk_builder", "sk_maintainer"}
public_key_from_secret(sk) == [kind |-> "pk", of |-> sk]
MalformedKey == PlainText("not-a-key")

(* sign: the base64 signature of data under sk *)
sign(sk, data) == [kind |-> "sig", signer |-> sk, data |-> data]

(* a verify that looks at the signing key only *)
verify_KeyOnly(public_key, data, signature) ==
    IF public_key.kind # "pk" THEN "err"
    ELSE IF signature.kind # "sig" THEN "err"
    ELSE IF public_key_from_secret(signature.signer) = public_key
         THEN "true" ELSE "false"

(* verify: "err" when the key or the signature is malformed, else whether  *)
(* the signature is one of data under the secret key of public_key         *)
verify(public_key, data, signature) ==
    IF public_key.kind # "pk" THEN "err"
    ELSE IF signature.kind # "sig" THEN "err"
    ELSE IF public_key_from_secret(signature.signer) = public_key
            /\ signature.data = data
         THEN "true" ELSE "false"

----------------------------------------------------------------------------
(* Data model (vbw/model.rs): the fields the Assembler and Verifier use *)

Policy(mode, require_lockfile_hashes) ==
    [type |-> "Policy", policy_version |-> "1.0", mode |-> mode,
     require_lockfile_hashes |-> require_lockfile_hashes]

(* Policy::default_policy: Mode B, lockfile hashes required *)
default_policy == Policy("B_LOCKED_NETWORK", TRUE)

Environment(mode) ==
    [type |-> "Environment", os_name |-> "Linux", mode |-> mode, tools |-> 1]

MaterialsLock(lockfiles) == [type |-> "MaterialsLock", lockfiles |-> lockfiles]

Artifact(path, sha256) == [path |-> path, sha256 |-> sha256]

Outputs(artifacts) == [type |-> "Outputs", artifacts |-> artifacts]

Enforcement(mode_requested, mode_enforced, sde_set, notes) ==
    [mode_requested |-> mode_requested, mode_enforced |-> mode_enforced,
     network_blocked |-> FALSE, source_date_epoch_set |-> sde_set,
     notes |-> notes]

(* an enforcement record that takes every mode for enforced *)
compute_enforcement_AllEnforced(policy, sde_set) ==
    Enforcement(policy.mode, TRUE, sde_set, None)

(* an enforcement record that takes mode B for enforced *)
compute_enforcement_LockedEnforced(policy, sde_set) ==
    IF policy.mode = "A_DETERMINISTIC"
    THEN Enforcement(policy.mode, FALSE, sde_set, Some("mode A is a declaration only"))
    ELSE Enforcement(policy.mode, TRUE, sde_set, None)

(* compute_enforcement: only mode C is reported as enforced *)
compute_enforcement(policy, sde_set) ==
    IF policy.mode = "A_DETERMINISTIC"
    THEN Enforcement(policy.mode, FALSE, sde_set, Some("mode A is a declaration only"))
    ELSE IF policy.mode = "B_LOCKED_NETWORK"
    THEN Enforcement(policy.mode, FALSE, sde_set, Some("mode B is not verified"))
    ELSE Enforcement(policy.mode, TRUE, sde_set, None)

----------------------------------------------------------------------------
(* Artifact paths and the working directory *)

ArtifactPath(abs, comps) == [abs |-> abs, comps |-> comps]

(* the --output-dir values of the model: dist, /abs/dist and ../dist *)
OutDirs ==
    { ArtifactPath(FALSE, <<"dist">>),
      ArtifactPath(TRUE, <<"abs", "dist">>),
      ArtifactPath(FALSE, <<"..", "dist">>) }

ArtifactNames == <<"my..file.txt", "app.js", "lib.js">>

(* collect_artifacts: format!("{}/{}", root.display(), rel) *)
JoinArtifact(dir, name) == ArtifactPath(dir.abs, Append(dir.comps, name))

is_absolute(p) == p.abs
has_parent_dir_Substring(p) ==
    \E i \in 1..Len(p.comps) : p.comps[i] \in {"..", "my..file.txt"}
has_parent_dir(p) == \E i \in 1..Len(p.comps) : p.comps[i] = ".."

ArtifactData == PlainText("artifact as built")
ArtifactChanged == PlainText("artifact changed")

(* a file of the working directory: whether it exists, whether its real    *)
(* path (symlinks resolved) lies outside the working directory, its bytes  *)
WorkFile(exists, outside, data) ==
    [exists |-> exists, outside |-> outside, data |-> data]

(* collect_outputs: one artifact per file of the output directory, sorted *)
collect_outputs(dir, n) ==
    Outputs([i \in 1..n |->
        Artifact(JoinArtifact(dir, ArtifactNames[i]), sha256_hex(ArtifactData))])

----------------------------------------------------------------------------
(* Bundle entries *)

File(data) == [type |-> "file", data |-> data]
Dir == [type |-> "dir"]
Symlink(target) == [type |-> "symlink", target |-> target]

(* symlink targets of the model *)
T_OutsideFile == "outside_file"       \* absolute, an existing file outside
T_BundleRoot == "bundle_root"         \* absolute, the bundle directory itself
T_DanglingParent == "dangling_parent" \* relative ../../gone, nothing there
SymTargets == {T_OutsideFile, T_BundleRoot, T_DanglingParent}

OutsideData == PlainText("outside file")

----------------------------------------------------------------------------
(* Bundle Assembler (vbw/build.rs, run_build) *)

Manifest(project, git_dirty, worktree, mat_hash, env_hash, out_hash, public_key, policy_hash, enforcement) ==
    [type |-> "Manifest",
     project |-> project,
     git_dirty |-> git_dirty,
     source_worktree_hash |-> worktree,
     materials_lock_hash |-> mat_hash,
     environment_hash |-> env_hash,
     outputs_hash |-> out_hash,
     public_key_ed25519 |-> public_key,
     policy_hash |-> policy_hash,
     enforcement |-> enforcement]

WorktreeHash == sha256_hex(PlainText("worktree"))

(* the inputs gathered by the collaborators of run_build *)
BuildInputs ==
    { in \in [policy : {Policy(m, r) : m \in Modes, r \in BOOLEAN},
              dirty : BOOLEAN,
              lockfiles : 0..1,
              outdir : OutDirs,
              nartifacts : 0..MaxArtifacts,
              sde_set : {FALSE},
              secret_key : {"sk_builder"}] :
        in.nartifacts = 0 => in.outdir = ArtifactPath(FALSE, <<"dist">>) }

(* a manifest whose component hashes are taken over compact texts *)
BuildManifest_CompactHashes(in) ==
    Manifest("proj",
             in.dirty,
             IF in.dirty THEN Some(WorktreeHash) ELSE None,
             sha256_hex(JsonText(MaterialsLock(in.lockfiles), "canonical")),
             sha256_hex(JsonText(Environment(in.policy.mode), "canonical")),
             sha256_hex(JsonText(collect_outputs(in.outdir, in.nartifacts), "canonical")),
             public_key_from_secret(in.secret_key),
             sha256_hex(JsonText(in.policy, "canonical")),
             Some(compute_enforcement(in.policy, in.sde_set)))

(* a manifest that carries the worktree hash whatever the tree's state *)
BuildManifest_AlwaysWorktree(in) ==
    Manifest("proj",
             in.dirty,
             Some(WorktreeHash),
             sha256_hex(to_string_pretty(MaterialsLock(in.lockfiles))),
             sha256_hex(to_string_pretty(Environment(in.policy.mode))),
             sha256_hex(to_string_pretty(collect_outputs(in.outdir, in.nartifacts))),
             public_key_from_secret(in.secret_key),
             sha256_hex(to_string_pretty(in.policy)),
             Some(compute_enforcement(in.policy, in.sde_set)))

(* steps 1-13 of run_build: the texts and the manifest *)
BuildManifest(in) ==
    Manifest("proj",
             in.dirty,
             IF in.dirty THEN Some(WorktreeHash) ELSE None,
             sha256_hex(to_string_pretty(MaterialsLock(in.lockfiles))),
             sha256_hex(to_string_pretty(Environment(in.policy.mode))),
             sha256_hex(to_string_pretty(collect_outputs(in.outdir, in.nartifacts))),
             public_key_from_secret(in.secret_key),
             sha256_hex(to_string_pretty(in.policy)),
             Some(compute_enforcement(in.policy, in.sde_set)))

(* the hash recorded in hashes/manifest.sha256 *)
BuildManifestHash(m) == sha256_hex(canonical_manifest_bytes(m))

(* a builder signature over the pretty text *)
BuildSignature_Pretty(sk, m) == sign(sk, to_string_pretty(m))

(* the builder signature *)
BuildSignature(sk, m) == sign(sk, canonical_manifest_bytes(m))

(* step 14 of run_build: the files written *)
WrittenBundle(in) ==
    LET m == BuildManifest(in) IN
    (P_signatures :> Dir) @@ (P_hashes :> Dir) @@
    (P_manifest :> File(to_string_pretty(m))) @@
    (P_environment :> File(to_string_pretty(Environment(in.policy.mode)))) @@
    (P_materials :> File(to_string_pretty(MaterialsLock(in.lockfiles)))) @@
    (P_outputs :> File(to_string_pretty(collect_outputs(in.outdir, in.nartifacts)))) @@
    (P_transcript :> File(PlainText("transcript"))) @@
    (P_policy :> File(to_string_pretty(in.policy))) @@
    (P_builder_sig :> File(BuildSignature(in.secret_key, m))) @@
    (P_manifest_sha256 :> File(BuildManifestHash(m)))

----------------------------------------------------------------------------
(* Filesystem view of a bundle b (a function from paths to entries) *)

MAX_WALK_DEPTH == 16

TargetExists(t) == t \in {T_OutsideFile, T_BundleRoot}
TargetIsDir(t) == t = T_BundleRoot

(* an existence test that opens the file and wants text in it *)
Exists_Readable(b, p) ==
    /\ p \in DOMAIN b
    /\ b[p].type = "symlink" => TargetExists(b[p].target)
    /\ b[p].type = "file" => b[p].data # NotUtf8

(* Path::exists, which follows symlinks *)
Exists(b, p) ==
    /\ p \in DOMAIN b
    /\ b[p].type = "symlink" => TargetExists(b[p].target)

(* Path::is_dir, which follows symlinks *)
IsDir(b, p) ==
    /\ p \in DOMAIN b
    /\ \/ b[p].type = "dir"
       \/ b[p].type = "symlink" /\ TargetIsDir(b[p].target)

(* the bytes an open of p yields, through a symlink if p is one *)
FileBytes(b, p) ==
    IF p \notin DOMAIN b THEN None
    ELSE IF b[p].type = "file" THEN Some(b[p].data)
    ELSE IF b[p].type = "symlink" /\ b[p].target = T_OutsideFile THEN Some(OutsideData)
    ELSE None

(* fs::read_to_string(path) *)
read_file(b, p) ==
    IF FileBytes(b, p).some THEN read_to_string(FileBytes(b, p).val) ELSE None

(* Path::canonicalize of a directory of the walk *)
RealPath(b, dir) ==
    IF dir \in DOMAIN b /\ b[dir].type = "symlink" THEN << >> ELSE dir

(* fs::read_dir: the entries directly under a directory; a symlink to the  *)
(* bundle directory is never listed, walk_dir_inner stops on it before     *)
ReadDir(b, dir) ==
    IF dir \in DOMAIN b /\ b[dir].type = "symlink" THEN {}
    ELSE {p \in DOMAIN b : Len(p) = Len(dir) + 1 /\ SubSeq(p, 1, Len(dir)) = dir}

WalkErr == [ok |-> FALSE, entries |-> << >>, visited |-> {}]

RECURSIVE walk_dir_inner(_, _, _, _), WalkEntries(_, _, _, _)

(* walk_dir_inner: bails beyond MAX_WALK_DEPTH and on a directory whose    *)
(* real path was visited; else lists each entry, then recurses into it     *)
walk_dir_inner(b, dir, visited, depth) ==
    IF depth > MAX_WALK_DEPTH THEN WalkErr
    ELSE IF RealPath(b, dir) \in visited THEN WalkErr
    ELSE WalkEntries(b, ReadDir(b, dir), visited \cup {RealPath(b, dir)}, depth)

(* the loop over read_dir's entries (their order is the directory's, here  *)
(* a fixed one)                                                            *)
WalkEntries(b, todo, visited, depth) ==
    IF todo = {} THEN [ok |-> TRUE, entries |-> << >>, visited |-> visited]
    ELSE LET p == CHOOSE x \in todo : TRUE
             sub == IF IsDir(b, p) THEN walk_dir_inner(b, p, visited, depth + 1)
                    ELSE [ok |-> TRUE, entries |-> << >>, visited |-> visited]
         IN IF ~sub.ok THEN WalkErr
            ELSE LET rest == WalkEntries(b, todo \ {p}, sub.visited, depth)
                 IN IF ~rest.ok THEN WalkErr
                    ELSE [ok |-> TRUE,
                          entries |-> <<p>> \o sub.entries \o rest.entries,
                          visited |-> rest.visited]

walk_dir(b) == walk_dir_inner(b, << >>, {}, 0)

----------------------------------------------------------------------------
(* Characters *)

AsciiLetters ==
    {"a","b","c","d","e","f","g","h","i","j","k","l","m","n","o","p","q","r",
     "s","t","u","v","w","x","y","z",
     "A","B","C","D","E","F","G","H","I","J","K","L","M","N","O","P","Q","R",
     "S","T","U","V","W","X","Y","Z"}
AsciiDigits == {"0","1","2","3","4","5","6","7","8","9"}
OtherLetters == {"e_acute"}   \* a letter outside ASCII, one character

is_ascii_alphanumeric(c) == c \in AsciiLetters \cup AsciiDigits
is_alphanumeric(c) == c \in AsciiLetters \cup AsciiDigits \cup OtherLetters

ends_with(name, suffix) ==
    /\ Len(name) >= Len(suffix)
    /\ SubSeq(name, Len(name) - Len(suffix) + 1, Len(name)) = suffix

(* a naming pattern that does not admit the underscore *)
CoSignatureName_NoUnderscore(name) ==
    /\ ends_with(name, SigSuffix)
    /\ Len(name) > Len(SigSuffix)
    /\ \A i \in 1..Len(name) :
          is_alphanumeric(name[i]) \/ name[i] \in {"-", "."}

(* a naming pattern without the minimum length *)
CoSignatureName_NoLength(name) ==
    /\ ends_with(name, SigSuffix)
    /\ \A i \in 1..Len(name) :
          is_alphanumeric(name[i]) \/ name[i] \in {"_", "-", "."}

(* the naming pattern of a co-signature file in check_unexpected_files *)
CoSignatureName(name) ==
    /\ ends_with(name, SigSuffix)
    /\ Len(name) > Len(SigSuffix)
    /\ \A i \in 1..Len(name) :
          is_alphanumeric(name[i]) \/ name[i] \in {"_", "-", "."}

(* Path::starts_with(bundle_dir.join("signatures")) *)
UnderSignatures(p) == Len(p) >= 1 /\ p[1] = N_signatures

----------------------------------------------------------------------------
(* Findings *)

Finding(kind, what) == [kind |-> kind, what |-> what]

(* a verdict that looks at the warnings first *)
emit_verdict_WarningsFirst(errors, warnings) ==
    IF warnings # << >> THEN "VerifiedWithVariance"
    ELSE IF errors # << >> THEN "Unverified"
    ELSE "Verified"

(* emit_verdict *)
emit_verdict(errors, warnings) ==
    IF errors # << >> THEN "Unverified"
    ELSE IF warnings # << >> THEN "VerifiedWithVariance"
    ELSE "Verified"

(* the verifier's state before a run *)
VsIdle ==
    [stage |-> "idle", errors |-> <<>>, warnings |-> <<>>, ran |-> <<>>,
     reads |-> {}, hashed |-> {}, manifest |-> None, canonical_bytes |-> None,
     environment |-> None, materials_lock |-> None, outputs |-> None,
     policy |-> None, result |-> "none"]

----------------------------------------------------------------------------
(* Bundle Verifier (vbw/verify.rs, run_verify), stage by stage.  v is the  *)
(* verifier's state, rt the bundle path's kind, b the bundle, w the        *)
(* working directory.                                                      *)

Stages ==
    << "path_sanity", "completeness", "closed_world", "symlink_safety",
       "manifest_load", "manifest_hash", "signature", "component_hashes",
       "policy_hash", "artifacts", "enforcement", "policy_compliance" >>

Enter(v, stage) == [v EXCEPT !.ran = Append(@, stage)]
Goto(v, stage) == [v EXCEPT !.stage = stage]
AddError(v, e) == [v EXCEPT !.errors = Append(@, e)]
AddWarning(v, x) == [v EXCEPT !.warnings = Append(@, x)]
Read(v, p) == [v EXCEPT !.reads = @ \cup {p}]
Hashed(v, artifact_path) == [v EXCEPT !.hashed = @ \cup {artifact_path}]

(* return emit_verdict(errors, warnings) *)
Emit(v) ==
    [v EXCEPT !.stage = "done", !.result = emit_verdict(v.errors, v.warnings)]

(* return Err(..): the run ends without a verdict *)
ReturnErr(v) == [v EXCEPT !.stage = "done", !.result = "Err"]

(* a stage boundary that never returns early *)
Gate_Through(v, next) == Goto(v, next)

(* if !errors.is_empty() { return emit_verdict(..) } *)
Gate(v, next) == IF v.errors # << >> THEN Emit(v) ELSE Goto(v, next)

(* 0-1: the bundle path exists and is a directory *)
StagePathSanity(v0, rt) ==
    LET v == Enter(v0, "path_sanity") IN
    IF rt = "absent"
    THEN [v EXCEPT !.stage = "done", !.result = "Unverified",
                   !.errors = <<Finding("BundleDirMissing", << >>)>>]
    ELSE IF rt # "dir"
    THEN [v EXCEPT !.stage = "done", !.result = "Unverified",
                   !.errors = <<Finding("BundleNotADirectory", << >>)>>]
    ELSE Goto(v, "completeness")

(* a completeness loop that stops at the first missing file *)
RECURSIVE MissingFrom_First(_, _)
MissingFrom_First(b, i) ==
    IF i > Len(REQUIRED_FILES) THEN << >>
    ELSE IF ~Exists(b, REQUIRED_FILES[i])
         THEN <<Finding("RequiredFileMissing", REQUIRED_FILES[i])>>
         ELSE MissingFrom_First(b, i + 1)

(* 2: every required file exists *)
RECURSIVE MissingFrom(_, _)
MissingFrom(b, i) ==
    IF i > Len(REQUIRED_FILES) THEN << >>
    ELSE (IF ~Exists(b, REQUIRED_FILES[i])
          THEN <<Finding("RequiredFileMissing", REQUIRED_FILES[i])>>
          ELSE << >>) \o MissingFrom(b, i + 1)

StageCompleteness(v0, b) ==
    LET v == Enter(v0, "completeness") IN
    Gate([v EXCEPT !.errors = @ \o MissingFrom(b, 1)], "closed_world")

(* 3: check_unexpected_files *)
Allowed == RequiredSet \cup {P_signatures, P_hashes}

UnexpectedFinding(b, path) ==
    IF IsDir(b, path)
    THEN IF path = P_signatures \/ path = P_hashes THEN << >>
         ELSE <<Finding("UnexpectedDirectory", path)>>
    ELSE IF path \notin Allowed
    THEN IF UnderSignatures(path) /\ CoSignatureName(path[Len(path)])
         THEN << >>
         ELSE <<Finding("UnexpectedFile", path)>>
    ELSE << >>

RECURSIVE UnexpectedIn(_, _, _)
UnexpectedIn(b, entries, i) ==
    IF i > Len(entries) THEN << >>
    ELSE UnexpectedFinding(b, entries[i]) \o UnexpectedIn(b, entries, i + 1)

StageClosedWorld(v0, b) ==
    LET v == Enter(v0, "closed_world")
        walk == walk_dir(b)
    IN IF ~walk.ok THEN ReturnErr(v)
       ELSE Gate([v EXCEPT !.errors = @ \o UnexpectedIn(b, walk.entries, 1)],
                 "symlink_safety")

(* 4: check_symlink_safety.  The resolved target is canonicalized when it  *)
(* exists and is compared as written, component by component, when not     *)
ResolvesInside(t) == t \in {T_BundleRoot, T_DanglingParent}

SymlinkFinding(b, entry) ==
    IF b[entry].type = "symlink" /\ ~ResolvesInside(b[entry].target)
    THEN <<Finding("SymlinkEscapes", entry)>>
    ELSE << >>

RECURSIVE EscapesIn(_, _, _)
EscapesIn(b, entries, i) ==
    IF i > Len(entries) THEN << >>
    ELSE SymlinkFinding(b, entries[i]) \o EscapesIn(b, entries, i + 1)

StageSymlinkSafety(v0, b) ==
    LET v == Enter(v0, "symlink_safety")
        walk == walk_dir(b)
    IN IF ~walk.ok THEN ReturnErr(v)
       ELSE Gate([v EXCEPT !.errors = @ \o EscapesIn(b, walk.entries, 1)],
                 "manifest_load")

(* 5-6: read and parse manifest.json, recompute its canonical bytes *)
StageManifestLoad(v0, b) ==
    LET v == Read(Enter(v0, "manifest_load"), P_manifest)
        text == read_file(b, P_manifest)
    IN IF ~text.some THEN ReturnErr(v)
       ELSE LET m == from_str("Manifest", text.val)
            IN IF ~m.some THEN ReturnErr(v)
               ELSE [v EXCEPT !.manifest = m,
                              !.canonical_bytes = Some(canonical_manifest_bytes(m.val)),
                              !.stage = "manifest_hash"]

(* a manifest-hash stage that compares nothing *)
StageManifestHash_Skip(v0, b) ==
    LET v == Read(Enter(v0, "manifest_hash"), P_manifest_sha256)
        stored == read_file(b, P_manifest_sha256)
    IN IF ~stored.some THEN ReturnErr(v)
       ELSE Goto(v, "signature")

(* 7: the stored hash against sha256 of the canonical bytes *)
StageManifestHash(v0, b) ==
    LET v == Read(Enter(v0, "manifest_hash"), P_manifest_sha256)
        stored == read_file(b, P_manifest_sha256)
    IN IF ~stored.some THEN ReturnErr(v)
       ELSE Goto(IF stored.val # sha256_hex(v.canonical_bytes.val)
                 THEN AddError(v, Finding("ManifestHashMismatch", P_manifest))
                 ELSE v,
                 "signature")

(* a signature stage that also wants the manifest's key to be the one key *)
(* it trusts                                                               *)
StageSignature_TrustedKey(v0, b) ==
    LET v == Read(Enter(v0, "signature"), P_builder_sig)
        signature == read_file(b, P_builder_sig)
    IN IF ~signature.some THEN ReturnErr(v)
       ELSE LET r == verify(v.manifest.val.public_key_ed25519,
                            v.canonical_bytes.val, signature.val)
                trusted == v.manifest.val.public_key_ed25519 = public_key_from_secret("sk_builder")
            IN Goto(IF r = "true" /\ trusted THEN v
                    ELSE IF r = "false" \/ r = "true"
                    THEN AddError(v, Finding("SignatureInvalid", P_manifest))
                    ELSE AddError(v, Finding("SignatureError", P_manifest)),
                    "component_hashes")

(* 8: the builder signature against the canonical bytes *)
StageSignature(v0, b) ==
    LET v == Read(Enter(v0, "signature"), P_builder_sig)
        signature == read_file(b, P_builder_sig)
    IN IF ~signature.some THEN ReturnErr(v)
       ELSE LET r == verify(v.manifest.val.public_key_ed25519,
                            v.canonical_bytes.val, signature.val)
            IN Goto(IF r = "true" THEN v
                    ELSE IF r = "false"
                    THEN AddError(v, Finding("SignatureInvalid", P_manifest))
                    ELSE AddError(v, Finding("SignatureError", P_manifest)),
                    "component_hashes")

(* a component check that hashes the re-serialized parsed content *)
verify_and_parse_component_Reserialized(v0, b, path, expected, T, field) ==
    LET v == Read(v0, path)
        data == read_file(b, path)
    IN IF ~data.some THEN AddError(v, Finding("CannotRead", path))
       ELSE LET parsed == from_str(T, data.val)
                bytes == IF parsed.some THEN to_string_pretty(parsed.val) ELSE data.val
                v1 == IF sha256_hex(bytes) # expected
                      THEN AddError(v, Finding("HashMismatch", path))
                      ELSE v
            IN IF parsed.some THEN [v1 EXCEPT ![field] = parsed]
               ELSE AddWarning(v1, Finding("ParseFailed", path))

(* 9: verify_and_parse_component *)
verify_and_parse_component(v0, b, path, expected, T, field) ==
    LET v == Read(v0, path)
        data == read_file(b, path)
    IN IF ~data.some THEN AddError(v, Finding("CannotRead", path))
       ELSE LET v1 == IF sha256_hex(data.val) # expected
                      THEN AddError(v, Finding("HashMismatch", path))
                      ELSE v
                parsed == from_str(T, data.val)
            IN IF parsed.some THEN [v1 EXCEPT ![field] = parsed]
               ELSE AddWarning(v1, Finding("ParseFailed", path))

StageComponentHashes(v0, b) ==
    LET v == Enter(v0, "component_hashes")
        m == v.manifest.val
        v1 == verify_and_parse_component(v, b, P_environment,
                  m.environment_hash, "Environment", "environment")
        v2 == verify_and_parse_component(v1, b, P_materials,
                  m.materials_lock_hash, "MaterialsLock", "materials_lock")
        v3 == verify_and_parse_component(v2, b, P_outputs,
                  m.outputs_hash, "Outputs", "outputs")
    IN Goto(v3, "policy_hash")

(* 10: the policy reference *)
StagePolicyHash(v0, b) ==
    LET v == Read(Enter(v0, "policy_hash"), P_policy)
        policy_data == read_file(b, P_policy)
    IN IF ~policy_data.some THEN ReturnErr(v)
       ELSE LET v1 == IF sha256_hex(policy_data.val) # v.manifest.val.policy_hash
                      THEN AddError(v, Finding("PolicyHashMismatch", P_policy))
                      ELSE v
                parsed == from_str("Policy", policy_data.val)
            IN Goto(IF parsed.some THEN [v1 EXCEPT !.policy = parsed]
                    ELSE AddWarning(v1, Finding("ParseFailed", P_policy)),
                    "artifacts")

(* 11: the declared artifacts *)
WorkState(w, path) ==
    IF path \in DOMAIN w THEN w[path] ELSE WorkFile(FALSE, FALSE, ArtifactData)

(* an artifact check that takes an absent file for an error *)
CheckArtifact_MissingIsError(v, w, artifact) ==
    IF is_absolute(artifact.path)
    THEN AddError(v, Finding("ArtifactAbsolute", artifact.path))
    ELSE IF has_parent_dir(artifact.path)
    THEN AddError(v, Finding("ArtifactTraversal", artifact.path))
    ELSE IF WorkState(w, artifact.path).exists
    THEN IF WorkState(w, artifact.path).outside
         THEN AddError(v, Finding("ArtifactEscapes", artifact.path))
         ELSE IF sha256_hex(WorkState(w, artifact.path).data) # artifact.sha256
         THEN AddError(Hashed(v, artifact.path),
                       Finding("ArtifactHashMismatch", artifact.path))
         ELSE Hashed(v, artifact.path)
    ELSE AddError(v, Finding("ArtifactNotFound", artifact.path))

CheckArtifact(v, w, artifact) ==
    IF is_absolute(artifact.path)
    THEN AddError(v, Finding("ArtifactAbsolute", artifact.path))
    ELSE IF has_parent_dir(artifact.path)
    THEN AddError(v, Finding("ArtifactTraversal", artifact.path))
    ELSE IF WorkState(w, artifact.path).exists
    THEN IF WorkState(w, artifact.path).outside
         THEN AddError(v, Finding("ArtifactEscapes", artifact.path))
         ELSE IF sha256_hex(WorkState(w, artifact.path).data) # artifact.sha256
         THEN AddError(Hashed(v, artifact.path),
                       Finding("ArtifactHashMismatch", artifact.path))
         ELSE Hashed(v, artifact.path)
    ELSE AddWarning(v, Finding("ArtifactNotFound", artifact.path))

RECURSIVE CheckArtifacts(_, _, _, _)
CheckArtifacts(v, w, artifacts, i) ==
    IF i > Len(artifacts) THEN v
    ELSE CheckArtifacts(CheckArtifact(v, w, artifacts[i]), w, artifacts, i + 1)

StageArtifacts(v0, w) ==
    LET v == Enter(v0, "artifacts") IN
    Goto(IF v.outputs.some THEN CheckArtifacts(v, w, v.outputs.val.artifacts, 1)
         ELSE v,
         "enforcement")

(* an enforcement stage that warns of an unenforced mode whether or not    *)
(* policy.json parsed                                                      *)
StageEnforcement_WarnsAlways(v0) ==
    LET v == Enter(v0, "enforcement")
        m == v.manifest.val
        v1 == IF m.enforcement.some /\ v.policy.some
                 /\ m.enforcement.val.mode_requested # v.policy.val.mode
              THEN AddError(v, Finding("EnforcementMismatch", P_manifest))
              ELSE v
    IN Goto(IF m.enforcement.some /\ ~m.enforcement.val.mode_enforced
            THEN AddWarning(v1, Finding("ModeNotEnforced", m.enforcement.val.mode_requested))
            ELSE v1,
            "policy_compliance")

(* 12: enforcement consistency *)
StageEnforcement(v0) ==
    LET v == Enter(v0, "enforcement")
        m == v.manifest.val
    IN Goto(IF m.enforcement.some /\ v.policy.some
            THEN LET enf == m.enforcement.val
                     v1 == IF enf.mode_requested # v.policy.val.mode
                           THEN AddError(v, Finding("EnforcementMismatch", P_manifest))
                           ELSE v
                 IN IF ~enf.mode_enforced
                    THEN AddWarning(v1, Finding("ModeNotEnforced", enf.mode_requested))
                    ELSE v1
            ELSE v,
            "policy_compliance")

(* a compliance check that takes a dirty tree for an error *)
check_policy_compliance_DirtyIsError(v, manifest, policy, environment, materials_lock) ==
    LET v1 == IF manifest.git_dirty
              THEN AddError(v, Finding("DirtyTree", P_manifest)) ELSE v
        v2 == IF environment.some /\ environment.val.mode # policy.mode
              THEN AddWarning(v1, Finding("EnvironmentModeDiffers", P_environment))
              ELSE v1
    IN IF /\ policy.require_lockfile_hashes
          /\ materials_lock.some
          /\ materials_lock.val.lockfiles = 0
       THEN AddWarning(v2, Finding("NoLockfileHashes", P_materials))
       ELSE v2

(* 13: check_policy_compliance, then the verdict *)
check_policy_compliance(v, manifest, policy, environment, materials_lock) ==
    LET v1 == IF manifest.git_dirty
              THEN AddWarning(v, Finding("DirtyTree", P_manifest)) ELSE v
        v2 == IF environment.some /\ environment.val.mode # policy.mode
              THEN AddWarning(v1, Finding("EnvironmentModeDiffers", P_environment))
              ELSE v1
    IN IF /\ policy.require_lockfile_hashes
          /\ materials_lock.some
          /\ materials_lock.val.lockfiles = 0
       THEN AddWarning(v2, Finding("NoLockfileHashes", P_materials))
       ELSE v2

StagePolicyCompliance(v0) ==
    LET v == Enter(v0, "policy_compliance") IN
    Emit(IF v.policy.some
         THEN check_policy_compliance(v, v.manifest.val, v.policy.val,
                                      v.environment, v.materials_lock)
         ELSE v)

(* one stage of run_verify *)
RunStage(v, rt, b, w) ==
    CASE v.stage = "path_sanity" -> StagePathSanity(v, rt)
      [] v.stage = "completeness" -> StageCompleteness(v, b)
      [] v.stage = "closed_world" -> StageClosedWorld(v, b)
      [] v.stage = "symlink_safety" -> StageSymlinkSafety(v, b)
      [] v.stage = "manifest_load" -> StageManifestLoad(v, b)
      [] v.stage = "manifest_hash" -> StageManifestHash(v, b)
      [] v.stage = "signature" -> StageSignature(v, b)
      [] v.stage = "component_hashes" -> StageComponentHashes(v, b)
      [] v.stage = "policy_hash" -> StagePolicyHash(v, b)
      [] v.stage = "artifacts" -> StageArtifacts(v, w)
      [] v.stage = "enforcement" -> StageEnforcement(v)
      [] v.stage = "policy_compliance" -> StagePolicyCompliance(v)

(* step 1 of run_build, load_or_create_policy at the default path          *)
(* vbw/policy.json: a missing policy file is created with the default      *)
(* policy before anything else is done                                     *)
load_or_create_policy(policy_exists) ==
    IF policy_exists THEN << >>
    ELSE (P_policy :> File(to_string_pretty(default_policy)))

(* the order of step 14's create_dir_all and fs::write calls *)
WriteOrder ==
    << P_signatures, P_hashes, P_manifest, P_environment, P_materials,
       P_outputs, P_transcript, P_policy, P_builder_sig, P_manifest_sha256 >>

(* what step 14 has written when the call for path failed returns an error *)
WrittenBefore(in, failed) ==
    LET i == CHOOSE k \in 1..Len(WriteOrder) : WriteOrder[k] = failed
    IN [p \in {WriteOrder[k] : k \in 1..(i - 1)} |-> WrittenBundle(in)[p]]

(* the steps of run_build before step 14 that return an error through `?` *)
FailSteps == {"policy_fail", "key_fail", "git_fail", "build_command_fail", "outputs_fail"}

(* vbw/ before run_build: empty, or holding the policy file, which is     *)
(* unreadable or unparseable when loading it is the step that fails        *)
PriorBundle(in, policy_exists, op) ==
    IF ~policy_exists THEN << >>
    ELSE IF op = "policy_fail" THEN (P_policy :> File(PlainText("not json")))
    ELSE (P_policy :> File(to_string_pretty(in.policy)))

(* what a failed run_build leaves under vbw/ *)
FailedBundle(in, policy_exists, op, failed) ==
    IF op = "policy_fail" THEN PriorBundle(in, policy_exists, op)
    ELSE IF op \in FailSteps
    THEN load_or_create_policy(policy_exists) @@ PriorBundle(in, policy_exists, op)
    ELSE WrittenBefore(in, failed) @@ load_or_create_policy(policy_exists)
         @@ PriorBundle(in, policy_exists, op)

(* run_build returns an error at step op (at the write of path failed when *)
(* op is write_fail); policy_exists tells whether vbw/policy.json was      *)
(* there                                                                   *)
BuildFails(in, policy_exists, op, failed) ==
    /\ pc = "init"
    /\ ~deep
    /\ ~policy_exists => in.policy = default_policy
    /\ op = "policy_fail" => policy_exists
    /\ op \in FailSteps => failed = << >>
    /\ op = "write_fail" => \E k \in 1..Len(WriteOrder) : WriteOrder[k] = failed
    /\ pc' = "failed"
    /\ bundle' = FailedBundle(in, policy_exists, op, failed)
    /\ root' = IF bundle' = << >> THEN "absent" ELSE "dir"
    /\ inputs' = Some(in)
    /\ mods' = {[op |-> op, path |-> failed, single |-> policy_exists]}
    /\ UNCHANGED <<workdir, vs, deep>>

(* the inputs of the minimal bundle: mode C, no lockfile hashes required, *)
(* a clean tree, no lockfile, no artifact                                *)
MinimalInputs ==
    [policy |-> Policy("C_WITNESSED_ND", FALSE), dirty |-> FALSE,
     lockfiles |-> 0, outdir |-> ArtifactPath(FALSE, <<"dist">>),
     nartifacts |-> 0, sde_set |-> FALSE, secret_key |-> "sk_builder"]

Build(in) ==
    /\ pc = "init"
    /\ deep => in = MinimalInputs
    /\ pc' = "assembled"
    /\ root' = "dir"
    /\ bundle' = WrittenBundle(in)
    /\ workdir' = [p \in {JoinArtifact(in.outdir, ArtifactNames[i]) : i \in 1..in.nartifacts}
                      |-> WorkFile(TRUE, FALSE, ArtifactData)]
    /\ inputs' = Some(in)
    /\ UNCHANGED <<mods, vs, deep>>

Init ==
    /\ pc = "init"
    /\ root = "absent"
    /\ bundle = << >>
    /\ workdir = << >>
    /\ inputs = None
    /\ mods = {}
    /\ vs = VsIdle
    /\ deep = FALSE

(* run_verify from state v to its return *)
RECURSIVE RunFrom(_, _, _, _)
RunFrom(v, rt, b, w) ==
    IF v.stage = "done" THEN v ELSE RunFrom(RunStage(v, rt, b, w), rt, b, w)

run_verify(rt, b, w) == RunFrom([VsIdle EXCEPT !.stage = "path_sanity"], rt, b, w)

----------------------------------------------------------------------------
(* What may happen to an assembled bundle before it is verified *)

N_malicious == <<"m","a","l","i","c","i","o","u","s",".","t","x","t">>
N_cosig == <<"m","a","i","n","t","a","i","n","e","r","_","o","r","g">> \o SigSuffix
N_badname == <<"b","a","d"," ","n","a","m","e">> \o SigSuffix
N_extra == <<"e","x","t","r","a">>
N_inner == <<"i","n","n","e","r",".","t","x","t">>
N_loop == <<"l","o","o","p">>

(* entries an outsider may add, each a function from new paths to entries *)
ExtraEntries ==
    { (<<N_malicious>> :> File(PlainText("pwned"))),
      (<<N_malicious>> :> Symlink(T_OutsideFile)),
      (<<N_signatures, N_cosig>> :> File(PlainText("base64sigdata"))),
      (<<N_signatures, N_cosig>> :> File(NotUtf8)),
      (<<N_signatures, N_cosig>> :> Symlink(T_OutsideFile)),
      (<<N_signatures, N_cosig>> :> Symlink(T_DanglingParent)),
      (<<N_signatures, SigSuffix>> :> File(PlainText("base64sigdata"))),
      (<<N_signatures, N_badname>> :> File(PlainText("base64sigdata"))),
      (<<N_signatures, N_malicious>> :> File(PlainText("pwned"))),
      (<<N_hashes, N_malicious>> :> File(PlainText("pwned"))),
      (<<N_extra>> :> Dir),
      (<<N_extra>> :> Dir) @@ (<<N_extra, N_inner>> :> File(PlainText("pwned"))),
      (<<N_loop>> :> Symlink(T_BundleRoot)) }

(* what a required file may be replaced by *)
Replacements ==
    { [path |-> p, entry |-> e] :
        p \in {P_transcript, P_manifest},
        e \in {Symlink(T_OutsideFile), Symlink(T_DanglingParent), Dir} }

UnknownHash == sha256_hex(PlainText("unknown"))
UnknownKey == public_key_from_secret("sk_unknown")
Garbage == PlainText("not json")

Choice(data, single) == [data |-> data, single |-> single]

OtherModes(mode) == Modes \ {mode}

(* changed contents of manifest.json; single tells whether one changed     *)
(* byte of the pretty text produces it                                     *)
ManifestChoices(m) ==
    { Choice(JsonText(m, "pretty_ws"), TRUE),
      Choice(Garbage, TRUE),
      Choice(NotUtf8, TRUE),
      Choice(to_string_pretty([m EXCEPT !.project = "proX"]), TRUE),
      Choice(to_string_pretty([m EXCEPT !.materials_lock_hash = UnknownHash]), TRUE),
      Choice(to_string_pretty([m EXCEPT !.environment_hash = UnknownHash]), TRUE),
      Choice(to_string_pretty([m EXCEPT !.outputs_hash = UnknownHash]), TRUE),
      Choice(to_string_pretty([m EXCEPT !.policy_hash = UnknownHash]), TRUE),
      Choice(to_string_pretty([m EXCEPT !.public_key_ed25519 = UnknownKey]), TRUE),
      Choice(to_string_pretty([m EXCEPT !.public_key_ed25519 = MalformedKey]), TRUE),
      Choice(to_string_pretty([m EXCEPT !.enforcement = None]), TRUE),
      Choice(to_string_pretty([m EXCEPT !.git_dirty = ~@]), FALSE) }
    \cup (IF m.source_worktree_hash.some
          THEN {Choice(to_string_pretty([m EXCEPT !.source_worktree_hash = None]), TRUE)}
          ELSE {})
    \cup (IF m.enforcement.some
          THEN {Choice(to_string_pretty(
                    [m EXCEPT !.enforcement.val.mode_requested = x]), FALSE) :
                  x \in OtherModes(m.enforcement.val.mode_requested)}
               \cup {Choice(to_string_pretty(
                    [m EXCEPT !.enforcement.val.mode_enforced = ~@]), FALSE)}
          ELSE {})

(* changed values of a component file *)
ComponentValues(c) ==
    CASE c.type = "Environment" ->
            { [single |-> TRUE, val |-> [c EXCEPT !.os_name = "Linus"]] }
            \cup { [single |-> FALSE, val |-> [c EXCEPT !.mode = x]] : x \in OtherModes(c.mode) }
      [] c.type = "MaterialsLock" ->
            { [single |-> FALSE, val |-> [c EXCEPT !.lockfiles = 1 - @]] }
      [] c.type = "Outputs" ->
            { [single |-> FALSE, val |-> [c EXCEPT !.artifacts = << >>]] : x \in {1} \cap DOMAIN c.artifacts }
            \cup { [single |-> TRUE, val |-> [c EXCEPT !.artifacts[1].sha256 = UnknownHash]] :
                     x \in {1} \cap DOMAIN c.artifacts }
      [] c.type = "Policy" ->
            { [single |-> TRUE, val |-> [c EXCEPT !.policy_version = "1.1"]],
              [single |-> FALSE, val |-> [c EXCEPT !.require_lockfile_hashes = ~@]] }
            \cup { [single |-> FALSE, val |-> [c EXCEPT !.mode = x]] : x \in OtherModes(c.mode) }

ComponentChoices(c) ==
    { Choice(JsonText(c, "pretty_ws"), TRUE), Choice(Garbage, TRUE), Choice(NotUtf8, TRUE) }
    \cup { Choice(to_string_pretty(x.val), x.single) : x \in ComponentValues(c) }

(* changed contents of the file at path p of bundle b *)
TamperChoices(b, p) ==
    LET data == b[p].data IN
    IF data.kind = "json" /\ data.val.type = "Manifest" THEN ManifestChoices(data.val)
    ELSE IF data.kind = "json" THEN ComponentChoices(data.val)
    ELSE IF data.kind = "hex"
    THEN { Choice(UnknownHash, TRUE), Choice(NotUtf8, TRUE) }
         \cup { Choice(sha256_hex(b[q].data), FALSE) : q \in {P_manifest} \cap DOMAIN b }
    ELSE IF data.kind = "sig"
    THEN { Choice(sign("sk_unknown", data.data), TRUE),
           Choice(sign("sk_maintainer", data.data), FALSE),
           Choice(sign(data.signer, [data.data EXCEPT !.layout = "pretty"]), FALSE),
           Choice(PlainText("not base64"), TRUE),
           Choice(NotUtf8, TRUE) }
    ELSE { Choice(PlainText("edited"), TRUE), Choice(NotUtf8, TRUE) }

ShapeOps == {"remove", "add", "replace"}

(* a change of kind op may be made to an assembled bundle that is          *)
(* unchanged; when deep, changes of the bundle's shape, one of each kind,  *)
(* may follow one another, and so may invocations of the Co-signer         *)
Modifiable(op) ==
    /\ pc = "assembled"
    /\ \/ mods = {}
       \/ /\ op = "unreadable"
          /\ \A m \in mods : m.op = "tamper"
       \/ /\ deep
          /\ op = "attest"
          /\ \A m \in mods : m.op = "attest"
          /\ Cardinality(mods) < MaxCosign
       \/ /\ deep
          /\ op \in ShapeOps
          /\ \A m \in mods : m.op \in ShapeOps /\ m.op # op

Mod(op, path, single) == [op |-> op, path |-> path, single |-> single]

(* one file's content is changed *)
TamperFile(p) ==
    /\ Modifiable("tamper")
    /\ p \in DOMAIN bundle /\ bundle[p].type = "file"
    /\ \E c \in TamperChoices(bundle, p) :
          /\ c.data # bundle[p].data
          /\ bundle' = [bundle EXCEPT ![p] = File(c.data)]
          /\ mods' = mods \cup {Mod("tamper", p, c.single)}
    /\ UNCHANGED <<pc, root, workdir, inputs, vs, deep>>

(* after a change of another file, a file that run_verify reads with `?`  *)
(* is left with bytes that are not UTF-8                                   *)
MakeUnreadable(p) ==
    /\ Modifiable("unreadable")
    /\ mods # {}
    /\ \A m \in mods : m.path # p
    /\ p \in DOMAIN bundle /\ bundle[p].type = "file"
    /\ bundle' = [bundle EXCEPT ![p] = File(NotUtf8)]
    /\ mods' = mods \cup {Mod("unreadable", p, FALSE)}
    /\ UNCHANGED <<pc, root, workdir, inputs, vs, deep>>

(* required files are deleted *)
RemoveFiles(S) ==
    /\ Modifiable("remove")
    /\ S # {} /\ S \subseteq DOMAIN bundle
    /\ \A p \in S : bundle[p].type = "file"
    /\ bundle' = [p \in DOMAIN bundle \ S |-> bundle[p]]
    /\ mods' = mods \cup {Mod("remove", p, FALSE) : p \in S}
    /\ UNCHANGED <<pc, root, workdir, inputs, vs, deep>>

(* entries are added *)
AddEntries(es) ==
    /\ Modifiable("add")
    /\ root = "dir"
    /\ DOMAIN es \cap DOMAIN bundle = {}
    /\ bundle' = es @@ bundle
    /\ mods' = mods \cup {Mod("add", p, FALSE) : p \in DOMAIN es}
    /\ UNCHANGED <<pc, root, workdir, inputs, vs, deep>>

(* a required file is replaced by a symlink or a directory *)
ReplaceEntry(r) ==
    /\ Modifiable("replace")
    /\ r.path \in DOMAIN bundle /\ bundle[r.path].type = "file"
    /\ bundle' = [bundle EXCEPT ![r.path] = r.entry]
    /\ mods' = mods \cup {Mod("replace", r.path, FALSE)}
    /\ UNCHANGED <<pc, root, workdir, inputs, vs, deep>>

(* another party changes what the bundle records and writes every file    *)
(* anew, manifest hash and builder signature included, under its own key   *)
Resign(sk, dirty, lockfiles) ==
    /\ Modifiable("resign")
    /\ mods = {}
    /\ root = "dir"
    /\ sk # inputs.val.secret_key
    /\ LET in == [inputs.val EXCEPT !.secret_key = sk, !.dirty = dirty, !.lockfiles = lockfiles]
       IN /\ bundle' = WrittenBundle(in)
          /\ inputs' = Some(in)
    /\ mods' = {Mod("resign", P_manifest, FALSE)}
    /\ UNCHANGED <<pc, root, workdir, vs, deep>>

(* the key holder writes the bundle anew, consistently hashed and signed,  *)
(* with a manifest that carries no enforcement record, with a policy.json  *)
(* that is not a policy document, or both                                  *)
Forge(omit_enforcement, garbage_policy) ==
    /\ Modifiable("forge")
    /\ mods = {}
    /\ root = "dir"
    /\ omit_enforcement \/ garbage_policy
    /\ LET m0 == BuildManifest(inputs.val)
           m == [m0 EXCEPT !.enforcement = IF omit_enforcement THEN None ELSE @,
                           !.policy_hash = IF garbage_policy THEN sha256_hex(Garbage) ELSE @]
       IN bundle' = [WrittenBundle(inputs.val) EXCEPT
                        ![P_manifest] = File(to_string_pretty(m)),
                        ![P_policy] = IF garbage_policy THEN File(Garbage) ELSE @,
                        ![P_builder_sig] = File(BuildSignature(inputs.val.secret_key, m)),
                        ![P_manifest_sha256] = File(BuildManifestHash(m))]
    /\ mods' = {Mod("forge", IF garbage_policy THEN P_policy ELSE P_manifest, omit_enforcement)}
    /\ UNCHANGED <<pc, root, workdir, inputs, vs, deep>>

(* the bundle directory is deleted, or replaced by a file *)
RemoveBundle(kind) ==
    /\ Modifiable("remove_bundle")
    /\ root = "dir"
    /\ root' = kind
    /\ bundle' = << >>
    /\ mods' = mods \cup {Mod("remove_bundle", << >>, FALSE)}
    /\ UNCHANGED <<pc, workdir, inputs, vs, deep>>

ArtifactStates ==
    { WorkFile(FALSE, FALSE, ArtifactData),
      WorkFile(TRUE, FALSE, ArtifactChanged),
      WorkFile(TRUE, TRUE, ArtifactData) }

(* an artifact in the working directory is deployed away, rebuilt, or      *)
(* replaced by a symlink that leaves the working directory                 *)
ChangeArtifact(f) ==
    /\ Modifiable("artifact")
    /\ \E a \in DOMAIN workdir :
          /\ f # workdir[a]
          /\ workdir' = [workdir EXCEPT ![a] = f]
    /\ mods' = mods \cup {Mod("artifact", << >>, FALSE)}
    /\ UNCHANGED <<pc, root, bundle, inputs, vs, deep>>

----------------------------------------------------------------------------
(* Co-signer (main.rs, cmd_attest) *)

N_key_ == <<"k","e","y","_">>
N_default_id == <<"m","a","i","n","t","a","i","n","e","r","@","l","o","c","a","l">>

(* the --key-id values of the model *)
KeyIds ==
    { N_default_id, N_builder, << >>, <<".">>, <<".", ".">>,
      <<"a", "/", "b">>, <<"e_acute">> }

(* a whitelist that lets the path separator through *)
SanitizeChar_KeepsSlash(c) ==
    IF is_ascii_alphanumeric(c) \/ c \in {"-", "_", ".", "/"} THEN c ELSE "_"

SanitizeChar(c) ==
    IF is_ascii_alphanumeric(c) \/ c \in {"-", "_", "."} THEN c ELSE "_"

(* the file name cmd_attest derives from a key id *)
cosig_filename(key_id) ==
    LET sanitized == [i \in 1..Len(key_id) |-> SanitizeChar(key_id[i])]
        safe == IF Len(sanitized) = 0 \/ sanitized[1] = "."
                THEN N_key_ \o sanitized ELSE sanitized
    IN safe \o SigSuffix

(* what cmd_attest signs: the canonical bytes of the parsed manifest.json *)
AttestInput(b) ==
    LET text == read_file(b, P_manifest) IN
    IF text.some THEN from_str("Manifest", text.val) ELSE None

(* what fs::write leaves at path p of b: a new or rewritten file; through  *)
(* a symlink the bytes land at its target, outside the bundle's entries    *)
write_file(b, p, data) ==
    IF p \in DOMAIN b /\ b[p].type = "symlink" THEN b
    ELSE (p :> File(data)) @@ b

Attest(key_id, sk) ==
    /\ Modifiable("attest")
    /\ root = "dir"
    /\ AttestInput(bundle).some
    /\ LET signature == sign(sk, canonical_manifest_bytes(AttestInput(bundle).val))
           sig_path == <<N_signatures, cosig_filename(key_id)>>
       IN /\ bundle' = write_file((P_signatures :> Dir) @@ bundle, sig_path, signature)
          /\ mods' = mods \cup {Mod("attest", sig_path, FALSE)}
    /\ UNCHANGED <<pc, root, workdir, inputs, vs, deep>>

(* main, verify command: the process exit code for what run_verify         *)
(* returned; an Err return leaves main through `?` and the runtime exits   *)
(* with 1                                                                  *)
exit_ZeroOnVariance(result) == IF result = "Verified" THEN 0 ELSE 1
exit(result) ==
    CASE result = "Verified" -> 0
      [] result = "VerifiedWithVariance" -> 0
      [] result = "Unverified" -> 1
      [] result = "Err" -> 1

----------------------------------------------------------------------------
(* The run of the verifier *)

StartVerify ==
    /\ pc = "assembled"
    /\ pc' = "verifying"
    /\ vs' = [VsIdle EXCEPT !.stage = "path_sanity"]
    /\ UNCHANGED <<root, bundle, workdir, inputs, mods, deep>>

(* a verifier that rewrites a stale hashes/manifest.sha256 *)
VerifyStage_Repairs(stage) ==
    /\ pc = "verifying"
    /\ vs.stage = stage
    /\ vs' = RunStage(vs, root, bundle, workdir)
    /\ pc' = IF vs'.stage = "done" THEN "done" ELSE pc
    /\ bundle' = IF stage = "manifest_hash"
                 THEN [bundle EXCEPT ![P_manifest_sha256] =
                          File(sha256_hex(vs.canonical_bytes.val))]
                 ELSE bundle
    /\ UNCHANGED <<root, workdir, inputs, mods, deep>>

VerifyStage(stage) ==
    /\ pc = "verifying"
    /\ vs.stage = stage
    /\ vs' = RunStage(vs, root, bundle, workdir)
    /\ pc' = IF vs'.stage = "done" THEN "done" ELSE pc
    /\ UNCHANGED <<root, bundle, workdir, inputs, mods, deep>>

StageSet == {Stages[i] : i \in 1..Len(Stages)}

Next ==
    \/ \E in \in BuildInputs : Build(in)
    \/ /\ pc = "init"
       /\ \E in \in BuildInputs : \E policy_exists \in BOOLEAN :
             \E op \in FailSteps \cup {"write_fail"} :
                \E failed \in {<< >>} \cup {WriteOrder[k] : k \in 1..Len(WriteOrder)} :
                   BuildFails(in, policy_exists, op, failed)
    \/ \E p \in RequiredSet : TamperFile(p)
    \/ \E S \in SUBSET RequiredSet : RemoveFiles(S)
    \/ \E es \in ExtraEntries : AddEntries(es)
    \/ \E r \in Replacements : ReplaceEntry(r)
    \/ \E kind \in {"absent", "file"} : RemoveBundle(kind)
    \/ \E sk \in SecretKeys : \E dirty \in BOOLEAN : \E lockfiles \in 0..1 : Resign(sk, dirty, lockfiles)
    \/ \E omit_enforcement \in BOOLEAN : \E garbage_policy \in BOOLEAN : Forge(omit_enforcement, garbage_policy)
    \/ \E p \in {P_builder_sig, P_policy} : MakeUnreadable(p)
    \/ \E f \in ArtifactStates : ChangeArtifact(f)
    \/ \E key_id \in KeyIds : \E sk \in SecretKeys : Attest(key_id, sk)
    \/ StartVerify
    \/ \E stage \in StageSet : VerifyStage(stage)

Spec == Init /\ [][Next]_vars

(* the minimal bundle under combined changes of its shape *)
InitShape ==
    /\ pc = "init"
    /\ root = "absent"
    /\ bundle = << >>
    /\ workdir = << >>
    /\ inputs = None
    /\ mods = {}
    /\ vs = VsIdle
    /\ deep = TRUE

NextShape ==
    \/ Build(MinimalInputs)
    \/ \E S \in SUBSET RequiredSet : RemoveFiles(S)
    \/ \E es \in ExtraEntries : AddEntries(es)
    \/ \E r \in Replacements : ReplaceEntry(r)
    \/ \E key_id \in KeyIds : \E sk \in SecretKeys : Attest(key_id, sk)
    \/ StartVerify
    \/ \E stage \in StageSet : VerifyStage(stage)

SpecShape == InitShape /\ [][NextShape]_vars

-----------------------------------------------------------------------------
(* JSON text of a manifest (vbw/model.rs, vbw/canonical.rs, serde_json).   *)
(* Strings are sequences of characters, a text is a sequence of tokens.    *)

Null == [t |-> "null"]
Bool(b) == [t |-> "bool", b |-> b]
Number(n) == [t |-> "number", n |-> n]
String(s) == [t |-> "string", s |-> s]
Array(a) == [t |-> "array", a |-> a]
(* serde_json::Map: the members in insertion order, keys distinct *)
Object(map) == [t |-> "object", map |-> map]
Member(k, v) == [k |-> k, v |-> v]

Punct(c) == [t |-> c]
Ws(depth) == [t |-> "ws", depth |-> depth]
StrTok(raw) == [t |-> "str", raw |-> raw]
NumTok(n) == [t |-> "num", n |-> n]
LitTok(w) == [t |-> "lit", w |-> w]

(* the characters in byte order *)
ByteOrder == <<"\n", " ", "\"", "-", ".", "/", "0", "1", "2", "3", "4", "5", "6", "7", "8", "9", ":", "@", "A", "B", "C", "D", "E", "F", "G", "H", "I", "J", "K", "L", "M", "N", "O", "P", "Q", "R", "S", "T", "U", "V", "W", "X", "Y", "Z", "\\", "_", "a", "b", "c", "d", "e", "f", "g", "h", "i", "j", "k", "l", "m", "n", "o", "p", "q", "r", "s", "t", "u", "v", "w", "x", "y", "z">>
Rank(c) == CHOOSE i \in 1..Len(ByteOrder) : ByteOrder[i] = c

(* String's Ord: byte by byte, a proper prefix first *)
RECURSIVE StrLess(_, _)
StrLess(a, b) ==
    IF b = << >> THEN FALSE
    ELSE IF a = << >> THEN TRUE
    ELSE IF Head(a) = Head(b) THEN StrLess(Tail(a), Tail(b))
    ELSE Rank(Head(a)) < Rank(Head(b))

(* keys in the order of the map *)
unsorted(keys) == keys

(* keys.sort() *)
RECURSIVE sort(_)
sort(keys) ==
    IF keys = << >> THEN << >>
    ELSE LET i == CHOOSE i \in 1..Len(keys) :
                     \A j \in 1..Len(keys) : ~StrLess(keys[j], keys[i])
         IN <<keys[i]>> \o sort(SubSeq(keys, 1, i - 1) \o SubSeq(keys, i + 1, Len(keys)))

(* serde_json::to_string of a string, without the surrounding quotes *)
RECURSIVE format_escaped_str(_)
format_escaped_str(s) ==
    IF s = << >> THEN << >>
    ELSE (CASE Head(s) = "\"" -> <<"\\", "\"">>
            [] Head(s) = "\\" -> <<"\\", "\\">>
            [] Head(s) = "\n" -> <<"\\", "n">>
            [] OTHER -> <<Head(s)>>) \o format_escaped_str(Tail(s))

(* a reading of a string that keeps the escapes as written *)
parse_str_Raw(raw) == raw

(* serde_json's reading of a string between its quotes *)
RECURSIVE parse_str(_)
parse_str(raw) ==
    IF raw = << >> THEN << >>
    ELSE IF Head(raw) = "\\"
    THEN <<IF raw[2] = "n" THEN "\n" ELSE raw[2]>> \o parse_str(Tail(Tail(raw)))
    ELSE <<Head(raw)>> \o parse_str(Tail(raw))

HasKey(map, k) == \E j \in 1..Len(map) : map[j].k = k
GetKey(map, k) == map[CHOOSE j \in 1..Len(map) : map[j].k = k].v

(* write_canonical: keys sorted, no whitespace *)
RECURSIVE write_canonical(_), CanonicalElements(_, _), CanonicalMembers(_, _, _)
write_canonical(value) ==
    CASE value.t = "null" -> <<LitTok("null")>>
      [] value.t = "bool" -> <<LitTok(IF value.b THEN "true" ELSE "false")>>
      [] value.t = "number" -> <<NumTok(value.n)>>
      [] value.t = "string" -> <<StrTok(format_escaped_str(value.s))>>
      [] value.t = "array" ->
            <<Punct("[")>> \o CanonicalElements(value.a, 1) \o <<Punct("]")>>
      [] value.t = "object" ->
            <<Punct("{")>>
            \o CanonicalMembers(value.map, sort([j \in 1..Len(value.map) |-> value.map[j].k]), 1)
            \o <<Punct("}")>>

CanonicalElements(arr, i) ==
    IF i > Len(arr) THEN << >>
    ELSE (IF i > 1 THEN <<Punct(",")>> ELSE << >>)
         \o write_canonical(arr[i]) \o CanonicalElements(arr, i + 1)

CanonicalMembers(map, keys, i) ==
    IF i > Len(keys) THEN << >>
    ELSE (IF i > 1 THEN <<Punct(",")>> ELSE << >>)
         \o <<StrTok(format_escaped_str(keys[i])), Punct(":")>>
         \o write_canonical(GetKey(map, keys[i]))
         \o CanonicalMembers(map, keys, i + 1)

canonical_json(value) == write_canonical(value)

(* serde_json's PrettyFormatter: members in the order of the map, one per  *)
(* line, indented by depth                                                 *)
RECURSIVE WritePretty(_, _), PrettyElements(_, _, _), PrettyMembers(_, _, _)
WritePretty(value, depth) ==
    CASE value.t = "null" -> <<LitTok("null")>>
      [] value.t = "bool" -> <<LitTok(IF value.b THEN "true" ELSE "false")>>
      [] value.t = "number" -> <<NumTok(value.n)>>
      [] value.t = "string" -> <<StrTok(format_escaped_str(value.s))>>
      [] value.t = "array" ->
            IF value.a = << >> THEN <<Punct("["), Punct("]")>>
            ELSE <<Punct("[")>> \o PrettyElements(value.a, 1, depth + 1)
                 \o <<Ws(depth), Punct("]")>>
      [] value.t = "object" ->
            IF value.map = << >> THEN <<Punct("{"), Punct("}")>>
            ELSE <<Punct("{")>> \o PrettyMembers(value.map, 1, depth + 1)
                 \o <<Ws(depth), Punct("}")>>

PrettyElements(arr, i, depth) ==
    IF i > Len(arr) THEN << >>
    ELSE (IF i > 1 THEN <<Punct(",")>> ELSE << >>)
         \o <<Ws(depth)>> \o WritePretty(arr[i], depth) \o PrettyElements(arr, i + 1, depth)

PrettyMembers(map, i, depth) ==
    IF i > Len(map) THEN << >>
    ELSE (IF i > 1 THEN <<Punct(",")>> ELSE << >>)
         \o <<Ws(depth), StrTok(format_escaped_str(map[i].k)), Punct(":"), Ws(0)>>
         \o WritePretty(map[i].v, depth) \o PrettyMembers(map, i + 1, depth)

(* serde_json's parser: whitespace skipped between tokens *)
ParseFail == [ok |-> FALSE]
Parsed(v, i) == [ok |-> TRUE, v |-> v, i |-> i]

RECURSIVE SkipWs(_, _)
SkipWs(toks, i) ==
    IF i <= Len(toks) /\ toks[i].t = "ws" THEN SkipWs(toks, i + 1) ELSE i

At(toks, i) == IF i <= Len(toks) THEN toks[i].t ELSE "eof"

(* Map::insert: a repeated key keeps its place and takes the new value *)
MapInsert(map, k, v) ==
    IF HasKey(map, k)
    THEN [j \in 1..Len(map) |-> IF map[j].k = k THEN Member(k, v) ELSE map[j]]
    ELSE Append(map, Member(k, v))

RECURSIVE parse_value(_, _), parse_array(_, _, _), parse_object(_, _, _)
parse_value(toks, i0) ==
    LET i == SkipWs(toks, i0)
        t == At(toks, i)
    IN CASE t = "lit" ->
              Parsed(IF toks[i].w = "null" THEN Null ELSE Bool(toks[i].w = "true"), i + 1)
         [] t = "num" -> Parsed(Number(toks[i].n), i + 1)
         [] t = "str" -> Parsed(String(parse_str(toks[i].raw)), i + 1)
         [] t = "[" ->
              LET j == SkipWs(toks, i + 1)
              IN IF At(toks, j) = "]" THEN Parsed(Array(<< >>), j + 1)
                 ELSE parse_array(toks, j, << >>)
         [] t = "{" ->
              LET j == SkipWs(toks, i + 1)
              IN IF At(toks, j) = "}" THEN Parsed(Object(<< >>), j + 1)
                 ELSE parse_object(toks, j, << >>)
         [] OTHER -> ParseFail

parse_array(toks, i, acc) ==
    LET r == parse_value(toks, i)
    IN IF ~r.ok THEN ParseFail
       ELSE LET j == SkipWs(toks, r.i)
            IN IF At(toks, j) = "," THEN parse_array(toks, j + 1, Append(acc, r.v))
               ELSE IF At(toks, j) = "]" THEN Parsed(Array(Append(acc, r.v)), j + 1)
               ELSE ParseFail

parse_object(toks, i0, acc) ==
    LET i == SkipWs(toks, i0)
    IN IF At(toks, i) # "str" THEN ParseFail
       ELSE LET c == SkipWs(toks, i + 1)
            IN IF At(toks, c) # ":" THEN ParseFail
               ELSE LET r == parse_value(toks, c + 1)
                    IN IF ~r.ok THEN ParseFail
                       ELSE LET map == MapInsert(acc, parse_str(toks[i].raw), r.v)
                                j == SkipWs(toks, r.i)
                            IN IF At(toks, j) = "," THEN parse_object(toks, j + 1, map)
                               ELSE IF At(toks, j) = "}" THEN Parsed(Object(map), j + 1)
                               ELSE ParseFail

(* serde_json::from_str::<Value>: one value, then only whitespace *)
from_str_Value(toks) ==
    LET r == parse_value(toks, 1)
    IN IF r.ok /\ SkipWs(toks, r.i) = Len(toks) + 1 THEN Some(r.v) ELSE None

(* #[derive(Serialize)]: the fields in declaration order; a field marked   *)
(* skip_serializing_if = "Option::is_none" is left out when it is None     *)
Field(k, v) == <<Member(k, v)>>
OptionField(k, o, ser(_)) == IF o.some THEN <<Member(k, ser(o.val))>> ELSE << >>
SameValue(v) == v

ser_Project(p) ==
    Object(Field(<<"n", "a", "m", "e">>, String(p.name))
           \o OptionField(<<"r", "e", "p", "o", "_", "u", "r", "l">>, p.repo_url, String)
           \o OptionField(<<"h", "o", "m", "e", "p", "a", "g", "e">>, p.homepage, String))

ser_GitRef(g) ==
    Object(Field(<<"c", "o", "m", "m", "i", "t">>, String(g.commit))
           \o OptionField(<<"b", "r", "a", "n", "c", "h">>, g.branch, String)
           \o OptionField(<<"t", "a", "g">>, g.tag, String)
           \o Field(<<"d", "i", "r", "t", "y">>, Bool(g.dirty)))

ser_BuilderIdentity(b) ==
    Object(Field(<<"k", "e", "y", "_", "i", "d">>, String(b.key_id))
           \o Field(<<"p", "u", "b", "l", "i", "c", "_", "k", "e", "y", "_", "e", "d", "2", "5", "5", "1", "9">>, String(b.public_key_ed25519))
           \o OptionField(<<"i", "s", "s", "u", "e", "r">>, b.issuer, String))

ser_PolicyRef(p) ==
    Object(Field(<<"p", "a", "t", "h">>, String(p.path))
           \o Field(<<"h", "a", "s", "h", "_", "s", "h", "a", "2", "5", "6">>, String(p.hash_sha256)))

ser_Enforcement(e) ==
    Object(Field(<<"m", "o", "d", "e", "_", "r", "e", "q", "u", "e", "s", "t", "e", "d">>, String(e.mode_requested))
           \o Field(<<"m", "o", "d", "e", "_", "e", "n", "f", "o", "r", "c", "e", "d">>, Bool(e.mode_enforced))
           \o Field(<<"n", "e", "t", "w", "o", "r", "k", "_", "b", "l", "o", "c", "k", "e", "d">>, Bool(e.network_blocked))
           \o Field(<<"s", "o", "u", "r", "c", "e", "_", "d", "a", "t", "e", "_", "e", "p", "o", "c", "h", "_", "s", "e", "t">>, Bool(e.source_date_epoch_set))
           \o OptionField(<<"n", "o", "t", "e", "s">>, e.notes, String))

(* serde_json::to_value(manifest) *)
to_value(m) ==
    Object(Field(<<"v", "b", "w", "_", "v", "e", "r", "s", "i", "o", "n">>, String(m.vbw_version))
           \o Field(<<"b", "u", "i", "l", "d", "_", "i", "d">>, String(m.build_id))
           \o Field(<<"c", "r", "e", "a", "t", "e", "d", "_", "a", "t">>, String(m.created_at))
           \o Field(<<"p", "r", "o", "j", "e", "c", "t">>, ser_Project(m.project))
           \o Field(<<"g", "i", "t">>, ser_GitRef(m.git))
           \o Field(<<"s", "o", "u", "r", "c", "e", "_", "c", "o", "m", "m", "i", "t", "_", "t", "r", "e", "e", "_", "h", "a", "s", "h">>, String(m.source_commit_tree_hash))
           \o OptionField(<<"s", "o", "u", "r", "c", "e", "_", "w", "o", "r", "k", "t", "r", "e", "e", "_", "h", "a", "s", "h">>, m.source_worktree_hash, String)
           \o Field(<<"m", "a", "t", "e", "r", "i", "a", "l", "s", "_", "l", "o", "c", "k", "_", "h", "a", "s", "h">>, String(m.materials_lock_hash))
           \o Field(<<"e", "n", "v", "i", "r", "o", "n", "m", "e", "n", "t", "_", "h", "a", "s", "h">>, String(m.environment_hash))
           \o Field(<<"o", "u", "t", "p", "u", "t", "s", "_", "h", "a", "s", "h">>, String(m.outputs_hash))
           \o Field(<<"b", "u", "i", "l", "d", "e", "r", "_", "i", "d", "e", "n", "t", "i", "t", "y">>, ser_BuilderIdentity(m.builder_identity))
           \o Field(<<"p", "o", "l", "i", "c", "y", "_", "r", "e", "f">>, ser_PolicyRef(m.policy_ref))
           \o OptionField(<<"e", "n", "f", "o", "r", "c", "e", "m", "e", "n", "t">>, m.enforcement, ser_Enforcement)
           \o OptionField(<<"n", "o", "t", "e", "s">>, m.notes, String)
           \o OptionField(<<"e", "x", "t">>, m.ext, SameValue))

(* canonical_manifest_bytes, as text *)
canonical_manifest_text(m) == canonical_json(to_value(m))

(* serde_json::to_string_pretty(manifest), as text *)
pretty_manifest_text(m) == WritePretty(to_value(m), 0)

(* #[derive(Deserialize)]: a required field must be there; an Option field *)
(* is None when it is missing or null                                      *)
de_String(v) == IF v.t = "string" THEN Some(v.s) ELSE None
de_bool(v) == IF v.t = "bool" THEN Some(v.b) ELSE None
de_Value(v) == Some(v)
ModeNames == {<<"A", "_", "D", "E", "T", "E", "R", "M", "I", "N", "I", "S", "T", "I", "C">>, <<"B", "_", "L", "O", "C", "K", "E", "D", "_", "N", "E", "T", "W", "O", "R", "K">>, <<"C", "_", "W", "I", "T", "N", "E", "S", "S", "E", "D", "_", "N", "D">>}
de_ReproducibilityMode(v) ==
    IF v.t = "string" /\ v.s \in ModeNames THEN Some(v.s) ELSE None

de_Field(v, k, de(_)) == IF HasKey(v.map, k) THEN de(GetKey(v.map, k)) ELSE None

de_OptionField(v, k, de(_)) ==
    IF ~HasKey(v.map, k) \/ GetKey(v.map, k).t = "null" THEN Some(None)
    ELSE LET r == de(GetKey(v.map, k))
         IN IF r.some THEN Some(Some(r.val)) ELSE None

de_Project(v) ==
    IF v.t # "object" THEN None
    ELSE LET name == de_Field(v, <<"n", "a", "m", "e">>, de_String)
             repo_url == de_OptionField(v, <<"r", "e", "p", "o", "_", "u", "r", "l">>, de_String)
             homepage == de_OptionField(v, <<"h", "o", "m", "e", "p", "a", "g", "e">>, de_String)
         IN IF name.some /\ repo_url.some /\ homepage.some
            THEN Some([name |-> name.val, repo_url |-> repo_url.val,
                       homepage |-> homepage.val])
            ELSE None

de_GitRef(v) ==
    IF v.t # "object" THEN None
    ELSE LET commit == de_Field(v, <<"c", "o", "m", "m", "i", "t">>, de_String)
             branch == de_OptionField(v, <<"b", "r", "a", "n", "c", "h">>, de_String)
             tag == de_OptionField(v, <<"t", "a", "g">>, de_String)
             dirty == de_Field(v, <<"d", "i", "r", "t", "y">>, de_bool)
         IN IF commit.some /\ branch.some /\ tag.some /\ dirty.some
            THEN Some([commit |-> commit.val, branch |-> branch.val, tag |-> tag.val,
                       dirty |-> dirty.val])
            ELSE None

de_BuilderIdentity(v) ==
    IF v.t # "object" THEN None
    ELSE LET key_id == de_Field(v, <<"k", "e", "y", "_", "i", "d">>, de_String)
             public_key == de_Field(v, <<"p", "u", "b", "l", "i", "c", "_", "k", "e", "y", "_", "e", "d", "2", "5", "5", "1", "9">>, de_String)
             issuer == de_OptionField(v, <<"i", "s", "s", "u", "e", "r">>, de_String)
         IN IF key_id.some /\ public_key.some /\ issuer.some
            THEN Some([key_id |-> key_id.val, public_key_ed25519 |-> public_key.val,
                       issuer |-> issuer.val])
            ELSE None

de_PolicyRef(v) ==
    IF v.t # "object" THEN None
    ELSE LET path == de_Field(v, <<"p", "a", "t", "h">>, de_String)
             hash_sha256 == de_Field(v, <<"h", "a", "s", "h", "_", "s", "h", "a", "2", "5", "6">>, de_String)
         IN IF path.some /\ hash_sha256.some
            THEN Some([path |-> path.val, hash_sha256 |-> hash_sha256.val])
            ELSE None

de_Enforcement(v) ==
    IF v.t # "object" THEN None
    ELSE LET mode_requested == de_Field(v, <<"m", "o", "d", "e", "_", "r", "e", "q", "u", "e", "s", "t", "e", "d">>, de_ReproducibilityMode)
             mode_enforced == de_Field(v, <<"m", "o", "d", "e", "_", "e", "n", "f", "o", "r", "c", "e", "d">>, de_bool)
             network_blocked == de_Field(v, <<"n", "e", "t", "w", "o", "r", "k", "_", "b", "l", "o", "c", "k", "e", "d">>, de_bool)
             sde_set == de_Field(v, <<"s", "o", "u", "r", "c", "e", "_", "d", "a", "t", "e", "_", "e", "p", "o", "c", "h", "_", "s", "e", "t">>, de_bool)
             notes == de_OptionField(v, <<"n", "o", "t", "e", "s">>, de_String)
         IN IF mode_requested.some /\ mode_enforced.some /\ network_blocked.some
               /\ sde_set.some /\ notes.some
            THEN Some([mode_requested |-> mode_requested.val,
                       mode_enforced |-> mode_enforced.val,
                       network_blocked |-> network_blocked.val,
                       source_date_epoch_set |-> sde_set.val,
                       notes |-> notes.val])
            ELSE None

de_Manifest(v) ==
    IF v.t # "object" THEN None
    ELSE LET vbw_version == de_Field(v, <<"v", "b", "w", "_", "v", "e", "r", "s", "i", "o", "n">>, de_String)
             build_id == de_Field(v, <<"b", "u", "i", "l", "d", "_", "i", "d">>, de_String)
             created_at == de_Field(v, <<"c", "r", "e", "a", "t", "e", "d", "_", "a", "t">>, de_String)
             project == de_Field(v, <<"p", "r", "o", "j", "e", "c", "t">>, de_Project)
             git == de_Field(v, <<"g", "i", "t">>, de_GitRef)
             tree_hash == de_Field(v, <<"s", "o", "u", "r", "c", "e", "_", "c", "o", "m", "m", "i", "t", "_", "t", "r", "e", "e", "_", "h", "a", "s", "h">>, de_String)
             worktree_hash == de_OptionField(v, <<"s", "o", "u", "r", "c", "e", "_", "w", "o", "r", "k", "t", "r", "e", "e", "_", "h", "a", "s", "h">>, de_String)
             materials_lock_hash == de_Field(v, <<"m", "a", "t", "e", "r", "i", "a", "l", "s", "_", "l", "o", "c", "k", "_", "h", "a", "s", "h">>, de_String)
             environment_hash == de_Field(v, <<"e", "n", "v", "i", "r", "o", "n", "m", "e", "n", "t", "_", "h", "a", "s", "h">>, de_String)
             outputs_hash == de_Field(v, <<"o", "u", "t", "p", "u", "t", "s", "_", "h", "a", "s", "h">>, de_String)
             builder_identity == de_Field(v, <<"b", "u", "i", "l", "d", "e", "r", "_", "i", "d", "e", "n", "t", "i", "t", "y">>, de_BuilderIdentity)
             policy_ref == de_Field(v, <<"p", "o", "l", "i", "c", "y", "_", "r", "e", "f">>, de_PolicyRef)
             enforcement == de_OptionField(v, <<"e", "n", "f", "o", "r", "c", "e", "m", "e", "n", "t">>, de_Enforcement)
             notes == de_OptionField(v, <<"n", "o", "t", "e", "s">>, de_String)
             ext == de_OptionField(v, <<"e", "x", "t">>, de_Value)
         IN IF /\ vbw_version.some /\ build_id.some /\ created_at.some /\ project.some
               /\ git.some /\ tree_hash.some /\ worktree_hash.some
               /\ materials_lock_hash.some /\ environment_hash.some /\ outputs_hash.some
               /\ builder_identity.some /\ policy_ref.some /\ enforcement.some
               /\ notes.some /\ ext.some
            THEN Some([vbw_version |-> vbw_version.val,
                       build_id |-> build_id.val,
                       created_at |-> created_at.val,
                       project |-> project.val,
                       git |-> git.val,
                       source_commit_tree_hash |-> tree_hash.val,
                       source_worktree_hash |-> worktree_hash.val,
                       materials_lock_hash |-> materials_lock_hash.val,
                       environment_hash |-> environment_hash.val,
                       outputs_hash |-> outputs_hash.val,
                       builder_identity |-> builder_identity.val,
                       policy_ref |-> policy_ref.val,
                       enforcement |-> enforcement.val,
                       notes |-> notes.val,
                       ext |-> ext.val])
            ELSE None

(* serde_json::from_str::<Manifest>, of a text *)
manifest_from_text(toks) ==
    LET v == from_str_Value(toks)
    IN IF v.some THEN de_Manifest(v.val) ELSE None

(* manifests as run_build makes them and as manifest.json files give them: *)
(* ext is None in a built manifest, and any JSON value but null in a       *)
(* parsed one                                                              *)
ExtValues ==
    { None,
      Some(String(<<"s", "a", "y", " ", "\"", "h", "i", "\"", "\n">>)),
      Some(Array(<<Number(2), Null, Bool(TRUE), Array(<< >>)>>)),
      Some(Object(<<Member(<<"z", "e", "t", "a">>, Number(1)),
                    Member(<<"a", "\\", "b">>, Null),
                    Member(<<"Z", "e", "t", "a">>, Object(<<Member(<<"b">>, Object(<< >>)),
                                            Member(<<"a">>, String(<<"x">>))>>)),
                    Member(<<"a", "b">>, Bool(FALSE))>>)) }

EnforcementValues ==
    { None,
      Some([mode_requested |-> <<"C", "_", "W", "I", "T", "N", "E", "S", "S", "E", "D", "_", "N", "D">>, mode_enforced |-> TRUE,
            network_blocked |-> FALSE, source_date_epoch_set |-> FALSE, notes |-> None]),
      Some([mode_requested |-> <<"A", "_", "D", "E", "T", "E", "R", "M", "I", "N", "I", "S", "T", "I", "C">>, mode_enforced |-> FALSE,
            network_blocked |-> FALSE, source_date_epoch_set |-> TRUE,
            notes |-> Some(<<"n", "o", "t", " ", "e", "n", "f", "o", "r", "c", "e", "d">>)]) }

ManifestValues ==
    { [vbw_version |-> <<"1", ".", "0">>,
       build_id |-> <<"b", "-", "1">>,
       created_at |-> <<"2", "0", "2", "6", "-", "0", "1", "-", "0", "1", "T", "0", "0", ":", "0", "0", ":", "0", "0", "Z">>,
       project |-> [name |-> <<"p", "r", "o", "j">>, repo_url |-> None, homepage |-> None],
       git |-> [commit |-> <<"a", "a", "b", "b">>, branch |-> branch, tag |-> None, dirty |-> worktree.some],
       source_commit_tree_hash |-> <<"a", "a">>,
       source_worktree_hash |-> worktree,
       materials_lock_hash |-> <<"b", "b">>,
       environment_hash |-> <<"c", "c">>,
       outputs_hash |-> <<"d", "d">>,
       builder_identity |-> [key_id |-> <<"b", "u", "i", "l", "d", "e", "r">>, public_key_ed25519 |-> <<"A", "A", "A", "=">>,
                             issuer |-> None],
       policy_ref |-> [path |-> <<"v", "b", "w", "/", "p", "o", "l", "i", "c", "y", ".", "j", "s", "o", "n">>, hash_sha256 |-> <<"e", "e">>],
       enforcement |-> enforcement,
       notes |-> notes,
       ext |-> ext] :
         branch \in {None, Some(<<"m", "a", "i", "n">>)},
         worktree \in {None, Some(<<"f", "f">>)},
         enforcement \in EnforcementValues,
         notes \in {None, Some(<<"a", " ", "\"", "b", "\"", " ", "\\", " ", "c">>)},
         ext \in ExtValues }

(* the calls of the round trip, each made once, in any order that the data *)
(* allows                                                                  *)
CanonIdle ==
    [bytes_first |-> None, bytes_second |-> None, pretty |-> None,
     reparsed |-> None, bytes_reparsed |-> None, bytes_reordered |-> None]

(* the same value with the members of every object inserted in another     *)
(* order: reversed, or the first one last                                  *)
KeyOrders == {"reversed", "rotated"}

Reinserted(map, order) ==
    IF order = "reversed" THEN [j \in 1..Len(map) |-> map[Len(map) + 1 - j]]
    ELSE [j \in 1..Len(map) |-> map[(j % Len(map)) + 1]]

RECURSIVE Reordered(_, _)
Reordered(value, order) ==
    CASE value.t = "array" ->
            Array([j \in 1..Len(value.a) |-> Reordered(value.a[j], order)])
      [] value.t = "object" ->
            Object(Reinserted([j \in 1..Len(value.map) |->
                                  Member(value.map[j].k, Reordered(value.map[j].v, order))],
                              order))
      [] OTHER -> value

InitCanon ==
    /\ pc = "canonical"
    /\ root = "absent"
    /\ bundle = << >>
    /\ workdir = << >>
    /\ inputs \in {Some(m) : m \in ManifestValues}
    /\ mods = {}
    /\ vs = CanonIdle
    /\ deep = FALSE

Canonicalize ==
    /\ pc = "canonical"
    /\ ~vs.bytes_first.some
    /\ vs' = [vs EXCEPT !.bytes_first = Some(canonical_manifest_text(inputs.val))]
    /\ UNCHANGED <<pc, root, bundle, workdir, inputs, mods, deep>>

CanonicalizeAgain ==
    /\ pc = "canonical"
    /\ vs.bytes_first.some
    /\ ~vs.bytes_second.some
    /\ vs' = [vs EXCEPT !.bytes_second = Some(canonical_manifest_text(inputs.val))]
    /\ UNCHANGED <<pc, root, bundle, workdir, inputs, mods, deep>>

PrettyPrint ==
    /\ pc = "canonical"
    /\ ~vs.pretty.some
    /\ vs' = [vs EXCEPT !.pretty = Some(pretty_manifest_text(inputs.val))]
    /\ UNCHANGED <<pc, root, bundle, workdir, inputs, mods, deep>>

Reparse ==
    /\ pc = "canonical"
    /\ vs.pretty.some
    /\ ~vs.reparsed.some
    /\ vs' = [vs EXCEPT !.reparsed = Some(manifest_from_text(vs.pretty.val))]
    /\ UNCHANGED <<pc, root, bundle, workdir, inputs, mods, deep>>

CanonicalizeReparsed ==
    /\ pc = "canonical"
    /\ vs.reparsed.some
    /\ vs.reparsed.val.some
    /\ ~vs.bytes_reparsed.some
    /\ vs' = [vs EXCEPT !.bytes_reparsed = Some(canonical_manifest_text(vs.reparsed.val.val))]
    /\ UNCHANGED <<pc, root, bundle, workdir, inputs, mods, deep>>

(* canonical_json of the manifest's value built with another key order *)
CanonicalizeReordered(order) ==
    /\ pc = "canonical"
    /\ ~vs.bytes_reordered.some
    /\ vs' = [vs EXCEPT !.bytes_reordered =
                  Some([order |-> order,
                        text |-> canonical_json(Reordered(to_value(inputs.val), order))])]
    /\ UNCHANGED <<pc, root, bundle, workdir, inputs, mods, deep>>

NextCanon ==
    \/ Canonicalize
    \/ CanonicalizeAgain
    \/ PrettyPrint
    \/ Reparse
    \/ CanonicalizeReparsed
    \/ \E order \in KeyOrders : CanonicalizeReordered(order)

SpecCanon == InitCanon /\ [][NextCanon]_vars

-----------------------------------------------------------------------------
(* The signature primitive on key texts (sign.rs) *)

(* base64 text of len bytes of key material; a text that is not base64 is  *)
(* a PlainText                                                             *)
B64Key(len, seed) == [kind |-> "b64", len |-> len, seed |-> seed]

(* B64.decode *)
decode(text) == IF text.kind = "b64" THEN Some(text) ELSE None

(* keygen: a fresh 32-byte seed and its public key *)
keygen(seed) == [secret |-> B64Key(32, seed), public |-> public_key_from_secret(seed)]

(* a sign that takes key material of any length *)
sign_b64_AnyLength(secret_key_b64, data) ==
    LET sk_bytes == decode(secret_key_b64)
    IN IF ~sk_bytes.some THEN None ELSE Some(sign(sk_bytes.val.seed, data))

(* sign: Err when the secret key is not base64 or not 32 bytes long *)
sign_b64(secret_key_b64, data) ==
    LET sk_bytes == decode(secret_key_b64)
    IN IF ~sk_bytes.some THEN None
       ELSE IF sk_bytes.val.len # 32 THEN None
       ELSE Some(sign(sk_bytes.val.seed, data))

Seeds == {"sk_builder", "sk_maintainer"}

(* secret key texts: generated ones, and key files of other content *)
SecretKeyTexts ==
    {keygen(seed).secret : seed \in Seeds}
    \cup {B64Key(31, "sk_builder"), B64Key(64, "sk_builder"), PlainText("not base64")}

(* byte strings to sign: the canonical bytes of a manifest, its            *)
(* pretty-printed rendering, and another text                              *)
SignedData ==
    {canonical_manifest_bytes(BuildManifest(MinimalInputs)),
     to_string_pretty(BuildManifest(MinimalInputs)),
     PlainText("other")}

PublicKeyTexts == {public_key_from_secret(seed) : seed \in Seeds} \cup {MalformedKey}

SignIdle == [signed |-> None, verified |-> None]

InitSign ==
    /\ pc = "sign"
    /\ root = "absent"
    /\ bundle = << >>
    /\ workdir = << >>
    /\ inputs \in {Some([secret |-> sk, data |-> data]) :
                      sk \in SecretKeyTexts, data \in SignedData}
    /\ mods = {}
    /\ vs = SignIdle
    /\ deep = FALSE

(* sign(secret, data) *)
Sign ==
    /\ pc = "sign"
    /\ ~vs.signed.some
    /\ vs' = [vs EXCEPT !.signed = Some(sign_b64(inputs.val.secret, inputs.val.data))]
    /\ UNCHANGED <<pc, root, bundle, workdir, inputs, mods, deep>>

(* the signature texts a verify call may be given: the one just made, one  *)
(* of the same data under each key, and a text that is not a signature     *)
SignatureTexts ==
    (IF vs.signed.some /\ vs.signed.val.some THEN {vs.signed.val.val} ELSE {})
    \cup {sign(seed, inputs.val.data) : seed \in Seeds}
    \cup {PlainText("not base64")}

(* verify(public_key, data, signature) *)
Verify(public_key, data, signature) ==
    /\ pc = "sign"
    /\ vs.signed.some
    /\ ~vs.verified.some
    /\ vs' = [vs EXCEPT !.verified =
                  Some([public_key |-> public_key, data |-> data, signature |-> signature,
                        result |-> verify(public_key, data, signature)])]
    /\ UNCHANGED <<pc, root, bundle, workdir, inputs, mods, deep>>

NextSign ==
    \/ Sign
    \/ \E public_key \in PublicKeyTexts : \E data \in SignedData :
          \E signature \in SignatureTexts : Verify(public_key, data, signature)

SpecSign == InitSign /\ [][NextSign]_vars

----------------------------------------------------------------------------
(* run_build_command: the child process, its two pipes, the two reader     *)
(* threads, the channel and the main flow.  vs holds the state of one call *)

Streams == {"stdout", "stderr"}

LineText(i) == <<"line", i>>

(* what the child prints: n[s] lines on stream s, at most one of them not  *)
(* valid UTF-8, and its exit code                                          *)
ChildPrograms ==
    { [n |-> [s \in Streams |-> IF s = "stdout" THEN nout ELSE nerr], bad |-> bad, code |-> code] :
        nout \in 0..MaxLines, nerr \in 0..MaxLines,
        bad \in {None} \cup {Some([stream |-> s, index |-> i]) : s \in Streams, i \in 1..MaxLines},
        code \in {0, 1} }

(* the i-th line the child prints on stream s, as the bytes in the pipe *)
ChildLine(prog, s, i) ==
    IF prog.bad.some /\ prog.bad.val = [stream |-> s, index |-> i]
    THEN NotUtf8 ELSE LineText(i)

(* format!("[{}] [stdout] {}", ts, line) *)
format_tagged(ts, stream, line) == [ts |-> ts, stream |-> stream, line |-> line]

(* Sender::send with the channel's queue placed before the message *)
send_Front(queue, tagged) == <<tagged>> \o queue

(* Sender::send on the unbounded mpsc channel *)
send(queue, tagged) == Append(queue, tagged)

(* JoinHandle::join returning without the thread having finished *)
joinable_Always(v, s) == TRUE

(* JoinHandle::join returns once the thread has finished *)
joinable(v, s) == v.reader[s].at = "done"

(* the senders still alive when the original tx is kept by the main flow *)
senders_MainKeepsTx(v) == {s \in Streams : v.reader[s].at # "done"} \cup {"main"}

(* the senders still alive: tx_out and tx_err, each owned by its thread *)
senders(v) == {s \in Streams : v.reader[s].at # "done"}

(* Utc::now(), as the number of timestamps taken so far *)
now(v) == v.reader["stdout"].nread + v.reader["stderr"].nread

CaptureStart ==
    [ child |-> [written |-> [s \in Streams |-> 0],
                 open |-> [s \in Streams |-> TRUE],
                 exited |-> FALSE],
      pipe |-> [s \in Streams |-> << >>],
      reader |-> [s \in Streams |-> [at |-> "read", tagged |-> None, nread |-> 0, lines |-> << >>]],
      queue |-> << >>,
      arrived |-> << >>,
      main |-> "join_stdout",
      transcript |-> << >>,
      status |-> None,
      result |-> None ]

(* the state after both reader threads were spawned *)
InitCapture ==
    /\ pc = "capture"
    /\ root = "absent"
    /\ bundle = << >>
    /\ workdir = << >>
    /\ inputs \in {Some(prog) : prog \in {q \in ChildPrograms : q.bad.some => q.bad.val.index <= q.n[q.bad.val.stream]}}
    /\ mods = {}
    /\ vs = CaptureStart
    /\ deep = FALSE

CaptureStep(v) ==
    /\ vs' = v
    /\ UNCHANGED <<pc, root, bundle, workdir, inputs, mods, deep>>

(* the child writes its next line to stream s: it blocks while the pipe is *)
(* full, and the write fails once the reading end is gone                  *)
ChildWrite(s) ==
    /\ pc = "capture"
    /\ ~vs.child.exited
    /\ vs.child.open[s]
    /\ vs.child.written[s] < inputs.val.n[s]
    /\ IF vs.reader[s].at = "done"
       THEN CaptureStep([vs EXCEPT !.child.written[s] = @ + 1])
       ELSE /\ Len(vs.pipe[s]) < PipeCapacity
            /\ CaptureStep([vs EXCEPT !.child.written[s] = @ + 1,
                                      !.pipe[s] = Append(@, ChildLine(inputs.val, s, vs.child.written[s] + 1))])

(* the child closes stream s after its last line *)
ChildClose(s) ==
    /\ pc = "capture"
    /\ vs.child.open[s]
    /\ vs.child.written[s] = inputs.val.n[s]
    /\ CaptureStep([vs EXCEPT !.child.open[s] = FALSE])

(* the child exits *)
ChildExit ==
    /\ pc = "capture"
    /\ ~vs.child.exited
    /\ \A s \in Streams : ~vs.child.open[s]
    /\ CaptureStep([vs EXCEPT !.child.exited = TRUE])

(* reader.lines().map_while(Result::ok): the next line of the pipe; a line *)
(* that is not UTF-8 is an Err and ends the loop, and with it the thread   *)
ReadLine(s) ==
    /\ pc = "capture"
    /\ vs.reader[s].at = "read"
    /\ vs.pipe[s] # << >>
    /\ LET line == Head(vs.pipe[s])
       IN IF line = NotUtf8
          THEN CaptureStep([vs EXCEPT !.pipe[s] = << >>, !.reader[s].at = "done"])
          ELSE CaptureStep([vs EXCEPT !.pipe[s] = Tail(@),
                                      !.reader[s].at = "send",
                                      !.reader[s].nread = @ + 1,
                                      !.reader[s].lines = Append(@, line),
                                      !.reader[s].tagged = Some(format_tagged(now(vs), s, line))])

(* end of file: the pipe is empty and the child closed it; the thread ends *)
(* and drops its sender                                                    *)
ReadEof(s) ==
    /\ pc = "capture"
    /\ vs.reader[s].at = "read"
    /\ vs.pipe[s] = << >>
    /\ ~vs.child.open[s]
    /\ CaptureStep([vs EXCEPT !.reader[s].at = "done"])

(* tx.send(tagged) *)
SendLine(s) ==
    /\ pc = "capture"
    /\ vs.reader[s].at = "send"
    /\ CaptureStep([vs EXCEPT !.queue = send(@, vs.reader[s].tagged.val),
                              !.arrived = Append(@, vs.reader[s].tagged.val),
                              !.reader[s].tagged = None,
                              !.reader[s].at = "read"])

(* stdout_thread.join() *)
JoinStdout ==
    /\ pc = "capture"
    /\ vs.main = "join_stdout"
    /\ joinable(vs, "stdout")
    /\ CaptureStep([vs EXCEPT !.main = "join_stderr"])

(* stderr_thread.join() *)
JoinStderr ==
    /\ pc = "capture"
    /\ vs.main = "join_stderr"
    /\ joinable(vs, "stderr")
    /\ CaptureStep([vs EXCEPT !.main = "collect"])

(* one round of `for line in rx.iter()`: a queued line is pushed to the    *)
(* transcript                                                              *)
Receive ==
    /\ pc = "capture"
    /\ vs.main = "collect"
    /\ vs.queue # << >>
    /\ CaptureStep([vs EXCEPT !.transcript = Append(@, Head(vs.queue)),
                              !.queue = Tail(@)])

(* rx.iter() ends: the queue is empty and every sender was dropped *)
ReceiveEnd ==
    /\ pc = "capture"
    /\ vs.main = "collect"
    /\ vs.queue = << >>
    /\ senders(vs) = {}
    /\ CaptureStep([vs EXCEPT !.main = "wait"])

(* child.wait(), then the status decides what is returned *)
Wait ==
    /\ pc = "capture"
    /\ vs.main = "wait"
    /\ vs.child.exited
    /\ CaptureStep([vs EXCEPT !.main = "returned",
                              !.status = Some(inputs.val.code),
                              !.result = IF inputs.val.code = 0
                                         THEN Some([ok |-> TRUE, transcript |-> vs.transcript])
                                         ELSE Some([ok |-> FALSE])])

ChildNext == \E s \in Streams : ChildWrite(s) \/ ChildClose(s)

ReaderNext(s) == ReadLine(s) \/ ReadEof(s) \/ SendLine(s)

MainNext == JoinStdout \/ JoinStderr \/ Receive \/ ReceiveEnd \/ Wait

NextCapture ==
    \/ \E s \in Streams : ChildWrite(s)
    \/ \E s \in Streams : ChildClose(s)
    \/ ChildExit
    \/ \E s \in Streams : ReadLine(s)
    \/ \E s \in Streams : ReadEof(s)
    \/ \E s \in Streams : SendLine(s)
    \/ JoinStdout
    \/ JoinStderr
    \/ Receive
    \/ ReceiveEnd
    \/ Wait

SpecCapture == InitCapture /\ [][NextCapture]_vars

(* the threads and the main flow are scheduled fairly, and the child is    *)
(* one that goes on to close its streams and to exit                       *)
FairCapture ==
    /\ WF_vars(ChildNext \/ ChildExit)
    /\ \A s \in Streams : WF_vars(ReaderNext(s))
    /\ WF_vars(MainNext)

SpecCaptureLive == InitCapture /\ [][NextCapture]_vars /\ FairCapture

----------------------------------------------------------------------------
(* sign and public_key_from_secret statement by statement, with the        *)
(* buffers that hold secret-key bytes (sign.rs).  A buffer is its length   *)
(* and the key material in it, None when it holds zeros                    *)

KeyLengths == {0, 31, 32, 33, 64}

ScrubKeyTexts ==
    {B64Key(len, seed) : len \in KeyLengths, seed \in Seeds} \cup {PlainText("not base64")}

KeyFunctions == {"sign", "public_key_from_secret"}

Unallocated == [len |-> 0, secret |-> None]
Buffer(len, seed) == [len |-> len, secret |-> Some(seed)]

(* Zeroize for Vec<u8>: the bytes are overwritten, then the vector cleared *)
zeroize_vec(buf) == [len |-> 0, secret |-> None]

(* Zeroize for [u8; 32] *)
zeroize(buf) == [buf EXCEPT !.secret = None]

(* a wrong-length path that bails with the decoded bytes left in place *)
bail_wrong_length_NoScrub(mem) == mem

(* the wrong-length path: sk_bytes.zeroize() before the bail *)
bail_wrong_length(mem) == [mem EXCEPT !.sk_bytes = zeroize_vec(@)]

ScrubIdle ==
    [ at |-> "decode",
      mem |-> [sk_bytes |-> Unallocated, sk_array |-> Unallocated, signing_key |-> Unallocated],
      result |-> None ]

InitScrub ==
    /\ pc = "scrub"
    /\ root = "absent"
    /\ bundle = << >>
    /\ workdir = << >>
    /\ inputs \in {Some([fn |-> f, secret |-> sk, data |-> data]) :
                      f \in KeyFunctions, sk \in ScrubKeyTexts, data \in SignedData}
    /\ mods = {}
    /\ vs = ScrubIdle
    /\ deep = FALSE

ScrubStep(v) ==
    /\ vs' = v
    /\ UNCHANGED <<pc, root, bundle, workdir, inputs, mods, deep>>

(* let mut sk_bytes = B64.decode(secret_key_b64)? *)
Decode ==
    /\ pc = "scrub"
    /\ vs.at = "decode"
    /\ LET sk_bytes == decode(inputs.val.secret)
       IN IF ~sk_bytes.some
          THEN ScrubStep([vs EXCEPT !.at = "returned", !.result = Some([ok |-> FALSE])])
          ELSE ScrubStep([vs EXCEPT !.at = "check",
                                    !.mem.sk_bytes = Buffer(sk_bytes.val.len, sk_bytes.val.seed)])

(* if sk_bytes.len() != 32 { ...; bail } *)
CheckLength ==
    /\ pc = "scrub"
    /\ vs.at = "check"
    /\ IF vs.mem.sk_bytes.len # 32
       THEN ScrubStep([vs EXCEPT !.at = "returned",
                                 !.mem = bail_wrong_length(@),
                                 !.result = Some([ok |-> FALSE])])
       ELSE ScrubStep([vs EXCEPT !.at = "copy", !.mem.sk_array = [len |-> 32, secret |-> None]])

(* sk_array.copy_from_slice(&sk_bytes) *)
CopyFromSlice ==
    /\ pc = "scrub"
    /\ vs.at = "copy"
    /\ ScrubStep([vs EXCEPT !.at = "zero_bytes", !.mem.sk_array = vs.mem.sk_bytes])

(* sk_bytes.zeroize() *)
ZeroizeBytes ==
    /\ pc = "scrub"
    /\ vs.at = "zero_bytes"
    /\ ScrubStep([vs EXCEPT !.at = "from_bytes", !.mem.sk_bytes = zeroize_vec(@)])

(* SigningKey::from_bytes(&sk_array): the key object holds its own copy *)
FromBytes ==
    /\ pc = "scrub"
    /\ vs.at = "from_bytes"
    /\ ScrubStep([vs EXCEPT !.at = "use", !.mem.signing_key = vs.mem.sk_array])

(* signing_key.sign(data), or signing_key.verifying_key() *)
UseKey ==
    /\ pc = "scrub"
    /\ vs.at = "use"
    /\ LET seed == vs.mem.signing_key.secret.val
           out == IF inputs.val.fn = "sign" THEN sign(seed, inputs.val.data)
                  ELSE public_key_from_secret(seed)
       IN ScrubStep([vs EXCEPT !.at = "zero_array", !.result = Some([ok |-> TRUE, val |-> out])])

(* sk_array.zeroize() *)
ZeroizeArray ==
    /\ pc = "scrub"
    /\ vs.at = "zero_array"
    /\ ScrubStep([vs EXCEPT !.at = "return", !.mem.sk_array = zeroize(@)])

(* Ok(B64.encode(..)); signing_key goes out of scope and is dropped by the *)
(* key library                                                             *)
ReturnOk ==
    /\ pc = "scrub"
    /\ vs.at = "return"
    /\ ScrubStep([vs EXCEPT !.at = "returned", !.mem.signing_key = Unallocated])

NextScrub ==
    \/ Decode
    \/ CheckLength
    \/ CopyFromSlice
    \/ ZeroizeBytes
    \/ FromBytes
    \/ UseKey
    \/ ZeroizeArray
    \/ ReturnOk

SpecScrub == InitScrub /\ [][NextScrub]_vars

----------------------------------------------------------------------------
(* The co-signature file name: cmd_attest derives it from a key id, the    *)
(* closed-world check of the Verifier meets it under signatures/           *)

KeyIdChars == {"a", "Z", "7", "-", "_", ".", "/", " ", "e_acute"}

KeyIdStrings == UNION {[1..n -> KeyIdChars] : n \in 0..MaxKeyIdLen}

NameIdle == [sig_filename |-> None, unexpected |-> None]

InitName ==
    /\ pc = "name"
    /\ root = "absent"
    /\ bundle = << >>
    /\ workdir = << >>
    /\ inputs \in {Some(key_id) : key_id \in KeyIdStrings}
    /\ mods = {}
    /\ vs = NameIdle
    /\ deep = FALSE

(* cmd_attest: the name of the file it writes for the key id *)
DeriveName ==
    /\ pc = "name"
    /\ ~vs.sig_filename.some
    /\ vs' = [vs EXCEPT !.sig_filename = Some(cosig_filename(inputs.val))]
    /\ UNCHANGED <<pc, root, bundle, workdir, inputs, mods, deep>>

(* check_unexpected_files on the file of that name under signatures/ *)
CheckName ==
    /\ pc = "name"
    /\ vs.sig_filename.some
    /\ ~vs.unexpected.some
    /\ LET path == <<N_signatures, vs.sig_filename.val>>
           b == (P_signatures :> Dir) @@ (path :> File(PlainText("base64sigdata")))
       IN vs' = [vs EXCEPT !.unexpected = Some(UnexpectedFinding(b, path))]
    /\ UNCHANGED <<pc, root, bundle, workdir, inputs, mods, deep>>

NextName == DeriveName \/ CheckName

SpecName == InitName /\ [][NextName]_vars

----------------------------------------------------------------------------
(* Properties *)

Verdicts == {"Verified", "VerifiedWithVariance", "Unverified"}

HasError(kind, what) ==
    \E i \in 1..Len(vs.errors) : vs.errors[i].kind = kind /\ vs.errors[i].what = what

HasErrorOf(kinds) == \E i \in 1..Len(vs.errors) : vs.errors[i].kind \in kinds

HasWarningOf(kinds) == \E i \in 1..Len(vs.warnings) : vs.warnings[i].kind \in kinds

HasRun(stage) == \E i \in 1..Len(vs.ran) : vs.ran[i] = stage

IsPrefix(s, t) == Len(s) <= Len(t) /\ \A i \in 1..Len(s) : s[i] = t[i]

(* exactly one byte of the file at p was changed after assembly, and       *)
(* nothing else                                                            *)
SingleByteChange(p) == mods = {Mod("tamper", p, TRUE)}

LinkedFiles == {P_manifest, P_environment, P_materials, P_outputs, P_policy}

(* C1 as stated: after a single changed byte in manifest.json,             *)
(* environment.json, materials.lock.json, outputs.json or policy.json the  *)
(* run returns Unverified with a hash-mismatch or signature-invalid        *)
(* finding that names the changed file.                                    *)
C1_AnyByteDetected ==
    \A p \in LinkedFiles :
        (pc = "done" /\ SingleByteChange(p)) =>
            /\ vs.result = "Unverified"
            /\ \E k \in {"ManifestHashMismatch", "SignatureInvalid",
                         "HashMismatch", "PolicyHashMismatch"} : HasError(k, p)

(* C1 (amended): a single changed byte in environment.json,                *)
(* materials.lock.json or outputs.json yields Unverified with a            *)
(* hash-mismatch error naming the file, or a cannot-read error naming it   *)
(* when the bytes are no longer UTF-8.  In policy.json it yields           *)
(* Unverified with a policy hash-mismatch error, or an error return with   *)
(* no verdict when the bytes are no longer UTF-8.  In manifest.json it     *)
(* yields Unverified with a manifest hash-mismatch error when the file     *)
(* still parses, to another manifest; an error return when it no longer    *)
(* parses; and the verdict of the unchanged bundle when the parsed         *)
(* manifest is the same (a byte of whitespace).                            *)
C1_TamperDetection ==
    \A p \in LinkedFiles :
        (pc = "done" /\ SingleByteChange(p)) =>
            LET data == bundle[p].data
                written == WrittenBundle(inputs.val)
            IN IF p \in {P_environment, P_materials, P_outputs}
               THEN /\ vs.result = "Unverified"
                    /\ IF data.kind = "binary" THEN HasError("CannotRead", p)
                       ELSE HasError("HashMismatch", p)
               ELSE IF p = P_policy
               THEN IF data.kind = "binary" THEN vs.result = "Err"
                    ELSE /\ vs.result = "Unverified"
                         /\ HasError("PolicyHashMismatch", p)
               ELSE IF data.kind # "json" THEN vs.result = "Err"
               ELSE IF data.val # written[P_manifest].data.val
               THEN /\ vs.result = "Unverified"
                    /\ HasError("ManifestHashMismatch", P_manifest)
               ELSE vs.result = run_verify(root, written, workdir).result

(* C1: a changed byte of manifest.json that alters the parsed manifest was *)
(* verified and reported                                                   *)
C1_Witness ==
    /\ pc = "done"
    /\ SingleByteChange(P_manifest)
    /\ bundle[P_manifest].data.kind = "json"
    /\ bundle[P_manifest].data.val # WrittenBundle(inputs.val)[P_manifest].data.val
    /\ HasError("ManifestHashMismatch", P_manifest)

C3_VerdictDominance ==
    /\ [](vs.result \in Verdicts =>
            /\ vs.result = "Unverified" <=> vs.errors # << >>
            /\ vs.result = "VerifiedWithVariance" <=>
                   (vs.errors = << >> /\ vs.warnings # << >>)
            /\ vs.result = "Verified" <=>
                   (vs.errors = << >> /\ vs.warnings = << >>))
    /\ [][pc = "verifying" => IsPrefix(vs.errors, vs'.errors)]_vars

(* C3: a run with both an error and a warning ended Unverified *)
C3_Witness ==
    /\ pc = "done"
    /\ vs.result = "Unverified"
    /\ vs.errors # << >>
    /\ vs.warnings # << >>
    /\ vs.ran = Stages

(* the build inputs of the happy path *)
HappyInputs ==
    /\ inputs.some
    /\ inputs.val.policy = Policy("C_WITNESSED_ND", FALSE)
    /\ ~inputs.val.dirty
    /\ inputs.val.lockfiles = 0
    /\ inputs.val.nartifacts = 0

(* C4: a bundle assembled for a clean tree with empty materials, zero      *)
(* artifacts and a mode C policy not requiring lockfile hashes, verified   *)
(* unmodified, yields Verified with no error and no warning.               *)
C4_HappyPath ==
    (pc = "done" /\ HappyInputs /\ mods = {}) =>
        /\ vs.result = "Verified"
        /\ vs.errors = << >>
        /\ vs.warnings = << >>

(* C4: the minimal bundle was verified unmodified, through every stage *)
C4_Witness ==
    /\ pc = "done"
    /\ HappyInputs
    /\ mods = {}
    /\ vs.ran = Stages
    /\ vs.result = "Verified"

(* the co-signature naming pattern, in the words of the closed-world rule *)
CoSigPattern(name) ==
    /\ Len(name) > Len(SigSuffix)
    /\ \A i \in 1..Len(SigSuffix) :
          name[Len(name) - Len(SigSuffix) + i] = SigSuffix[i]
    /\ \A i \in 1..Len(name) :
          name[i] \in AsciiLetters \cup AsciiDigits \cup OtherLetters \cup {"-", "_", "."}

EntryIsDir(p) ==
    \/ bundle[p].type = "dir"
    \/ bundle[p].type = "symlink" /\ bundle[p].target = T_BundleRoot

(* an entry the closed-world rule permits *)
Permitted(p) ==
    \/ p \in RequiredSet /\ ~EntryIsDir(p)
    \/ p \in {P_signatures, P_hashes} /\ EntryIsDir(p)
    \/ /\ Len(p) = 2
       /\ p[1] = N_signatures
       /\ ~EntryIsDir(p)
       /\ CoSigPattern(p[2])

HasUnpermitted == \E p \in DOMAIN bundle : ~Permitted(p)

RequiredPresent ==
    \A p \in RequiredSet :
        /\ p \in DOMAIN bundle
        /\ bundle[p].type = "symlink" => bundle[p].target # T_DanglingParent

HasCycle ==
    \E p \in DOMAIN bundle :
        bundle[p].type = "symlink" /\ bundle[p].target = T_BundleRoot

MissingFiles ==
    { p \in RequiredSet :
        \/ p \notin DOMAIN bundle
        \/ bundle[p].type = "symlink" /\ bundle[p].target = T_DanglingParent }

(* C6: for every non-empty set of required files missing from the bundle   *)
(* directory the run returns Unverified, its errors are exactly one        *)
(* "Required file missing" per missing file, and no stage after            *)
(* completeness runs.                                                      *)
C6_Completeness ==
    (pc = "done" /\ root = "dir" /\ MissingFiles # {}) =>
        /\ vs.result = "Unverified"
        /\ Len(vs.errors) = Cardinality(MissingFiles)
        /\ \A i \in 1..Len(vs.errors) : vs.errors[i].kind = "RequiredFileMissing"
        /\ \A p \in MissingFiles :
              Cardinality({i \in 1..Len(vs.errors) : vs.errors[i].what = p}) = 1
        /\ vs.ran = <<"path_sanity", "completeness">>

(* C6: three required files were missing, and an entry was added too *)
C6_Witness ==
    /\ pc = "done"
    /\ Cardinality(MissingFiles) = 3
    /\ HasUnpermitted
    /\ Len(vs.errors) = 3

(* the builder signature file holds a signature of the canonical bytes of  *)
(* the parsed manifest under the key embedded in it                        *)
SignatureVerifies ==
    LET m == vs.manifest.val
        s == bundle[P_builder_sig].data
    IN /\ m.public_key_ed25519.kind = "pk"
       /\ s.kind = "sig"
       /\ s.signer = m.public_key_ed25519.of
       /\ s.data = JsonText(m, "canonical")

SignatureRead == HasRun("signature") /\ bundle[P_builder_sig].data.kind # "binary"

Links ==
    { [path |-> P_environment, field |-> "environment_hash", stage |-> "component_hashes"],
      [path |-> P_materials, field |-> "materials_lock_hash", stage |-> "component_hashes"],
      [path |-> P_outputs, field |-> "outputs_hash", stage |-> "component_hashes"],
      [path |-> P_policy, field |-> "policy_hash", stage |-> "policy_hash"] }

(* the stage of link l has taken the bytes of its file from disk *)
LinkRead(l) ==
    /\ HasRun(l.stage)
    /\ l.path = P_policy => bundle[l.path].data.kind # "binary"

CanonicalOnDisk == JsonText(bundle[P_manifest].data.val, "canonical")

(* C9: the Assembler writes hashes/manifest.sha256 and the builder         *)
(* signature over the canonical bytes of the manifest, which are not the   *)
(* bytes of manifest.json; the Verifier reports a manifest hash mismatch   *)
(* exactly when the stored hash differs from sha256 of the canonical bytes *)
(* of the parsed manifest, and a signature error exactly when the          *)
(* signature is not one of those bytes.                                    *)
C9_CanonicalSplit ==
    /\ (pc = "assembled" /\ mods = {}) =>
           /\ bundle[P_manifest_sha256].data = [kind |-> "hex", of |-> CanonicalOnDisk]
           /\ bundle[P_manifest_sha256].data # [kind |-> "hex", of |-> bundle[P_manifest].data]
           /\ bundle[P_builder_sig].data.data = CanonicalOnDisk
           /\ bundle[P_builder_sig].data.data # bundle[P_manifest].data
    /\ (HasRun("manifest_hash") /\ bundle[P_manifest_sha256].data.kind # "binary") =>
           (HasErrorOf({"ManifestHashMismatch"}) <=>
                bundle[P_manifest_sha256].data # [kind |-> "hex", of |-> CanonicalOnDisk])
    /\ SignatureRead =>
           (HasErrorOf({"SignatureInvalid", "SignatureError"}) <=> ~SignatureVerifies)

(* C9: a stored hash taken over the bytes of manifest.json was rejected *)
C9_Witness ==
    /\ pc = "done"
    /\ HasRun("manifest_hash")
    /\ bundle[P_manifest_sha256].data = [kind |-> "hex", of |-> bundle[P_manifest].data]
    /\ HasErrorOf({"ManifestHashMismatch"})
    /\ ~HasErrorOf({"SignatureInvalid", "SignatureError"})

(* C10 as stated: whatever key ids the Co-signer was given, the file       *)
(* signatures/builder.ed25519.sig is the one the Assembler wrote.          *)
C10_BuilderSignatureKept ==
    (pc = "assembled" /\ mods # {} /\ \A m \in mods : m.op = "attest") =>
        bundle[P_builder_sig] = WrittenBundle(inputs.val)[P_builder_sig]

(* a step of the Co-signer *)
AttestStep ==
    /\ pc = "assembled" /\ pc' = "assembled"
    /\ \A m \in mods' : m.op = "attest"
    /\ bundle' # bundle

(* C11 as stated: an invocation of the Co-signer only adds files: every    *)
(* entry of the bundle before it is there after it, with the same content. *)
C11_CosignerOnlyAdds ==
    [][AttestStep =>
          \A p \in DOMAIN bundle : p \in DOMAIN bundle' /\ bundle'[p] = bundle[p]]_vars

(* the bundle is the one the Assembler wrote plus one file at path p *)
OneFileAdded(p) ==
    /\ inputs.some
    /\ root = "dir"
    /\ p \notin DOMAIN WrittenBundle(inputs.val)
    /\ DOMAIN bundle = DOMAIN WrittenBundle(inputs.val) \cup {p}
    /\ \A q \in DOMAIN WrittenBundle(inputs.val) : bundle[q] = WrittenBundle(inputs.val)[q]
    /\ bundle[p].type = "file"

Failure == CHOOSE m \in mods : TRUE

(* vbw/ as it was before the failed run_build *)
Before ==
    IF ~Failure.single THEN << >>
    ELSE IF Failure.op = "policy_fail" THEN (P_policy :> File(PlainText("not json")))
    ELSE (P_policy :> File(JsonText(inputs.val.policy, "pretty")))

(* C13 as stated: a run_build that fails has created or modified no file   *)
(* under vbw/.                                                             *)
C13_NothingWritten ==
    pc = "failed" => bundle = Before

(* C14: no step of run_verify, whatever the bundle and the outcome,        *)
(* changes the bundle directory, its entries or the working directory.     *)
C14_VerifyReadOnly ==
    [][(pc = "verifying" \/ pc' = "verifying") =>
          (root' = root /\ bundle' = bundle /\ workdir' = workdir)]_vars

(* C14: a run over a changed bundle ended with an error return *)
C14_Witness ==
    /\ pc = "done"
    /\ vs.result = "Err"
    /\ HasErrorOf({"ManifestHashMismatch"})
    /\ mods # {}

(* the enforcement record e is honest about mode *)
HonestFor(e, mode) ==
    /\ e.mode_requested = mode
    /\ e.mode_enforced <=> mode = "C_WITNESSED_ND"
    /\ ~e.network_blocked
    /\ e.notes.some <=> ~e.mode_enforced

C16_WorktreeHashIffDirty ==
    (pc = "assembled" /\ mods = {}) =>
        /\ bundle[P_manifest].data.val.git_dirty = inputs.val.dirty
        /\ bundle[P_manifest].data.val.source_worktree_hash.some
              <=> bundle[P_manifest].data.val.git_dirty

(* C16: a manifest was written for a dirty tree, with the worktree hash *)
C16_Witness ==
    /\ pc = "assembled" /\ mods = {}
    /\ inputs.val.dirty
    /\ bundle[P_manifest].data.val.source_worktree_hash.some

(* the artifacts declared in outputs.json as it is on disk *)
Declared ==
    IF bundle[P_outputs].data.kind = "json" /\ bundle[P_outputs].data.val.type = "Outputs"
    THEN {bundle[P_outputs].data.val.artifacts[i].path :
             i \in 1..Len(bundle[P_outputs].data.val.artifacts)}
    ELSE {}

(* the path a is absolute, has a '..' component, or names a file whose     *)
(* real path is outside the working directory                              *)
Unsafe(a) ==
    \/ a.abs
    \/ \E i \in 1..Len(a.comps) : a.comps[i] = ".."
    \/ a \in DOMAIN workdir /\ workdir[a].exists /\ workdir[a].outside

(* C17: once the artifact stage has run, every declared artifact whose     *)
(* path is absolute, has a '..' component or resolves outside the working  *)
(* directory has an error recorded for it and was not opened or hashed;    *)
(* the run goes on through the remaining stages to a verdict; and an       *)
(* artifact under a relative path without '..' component, such as          *)
(* dist/my..file.txt, has no traversal error and is hashed when it exists  *)
(* inside the working directory.                                           *)
C17_ArtifactPathSafety ==
    HasRun("artifacts") =>
        /\ \A a \in Declared :
              IF Unsafe(a)
              THEN /\ \E k \in {"ArtifactAbsolute", "ArtifactTraversal", "ArtifactEscapes"} :
                         HasError(k, a)
                   /\ a \notin vs.hashed
              ELSE /\ ~HasError("ArtifactTraversal", a)
                   /\ ~HasError("ArtifactAbsolute", a)
                   /\ (a \in DOMAIN workdir /\ workdir[a].exists) => a \in vs.hashed
        /\ pc = "done" => (vs.ran = Stages /\ vs.result \in Verdicts)
        /\ (pc = "done" /\ \E a \in Declared : Unsafe(a)) => vs.result = "Unverified"

(* C17: an artifact that is a symlink out of the working directory was     *)
(* rejected unopened, and the run went on to its verdict                   *)
C17_Witness ==
    /\ pc = "done"
    /\ HasRun("artifacts")
    /\ \E a \in Declared :
          /\ ~a.abs
          /\ a.comps[Len(a.comps)] = "my..file.txt"
          /\ HasError("ArtifactEscapes", a)
          /\ a \notin vs.hashed
    /\ vs.ran = Stages

(* C18: when run_verify has produced a verdict, the verify command exits  *)
(* with 0 for Verified and for VerifiedWithVariance, and with a non-zero   *)
(* code for Unverified.                                                    *)
C18_ExitCodes ==
    (pc = "done" /\ vs.result \in Verdicts) =>
        /\ vs.result \in {"Verified", "VerifiedWithVariance"} => exit(vs.result) = 0
        /\ vs.result = "Unverified" => exit(vs.result) # 0

(* C18: a run ended with warnings only, and the command exits with 0 *)
C18_Witness ==
    /\ pc = "done"
    /\ vs.result = "VerifiedWithVariance"
    /\ vs.warnings # << >>
    /\ vs.errors = << >>
    /\ exit(vs.result) = 0

(* manifest.json cannot be read or does not parse as a Manifest, or one of *)
(* hashes/manifest.sha256, the builder's signature file and policy.json    *)
(* cannot be read                                                          *)
StructuralFailure ==
    \/ ~read_file(bundle, P_manifest).some
    \/ ~from_str("Manifest", read_file(bundle, P_manifest).val).some
    \/ ~read_file(bundle, P_manifest_sha256).some
    \/ ~read_file(bundle, P_builder_sig).some
    \/ ~read_file(bundle, P_policy).some

(* C19: a run over a bundle that passed the shape stages, and whose        *)
(* manifest.json is unreadable, malformed or not of the Manifest shape, or *)
(* whose hashes/manifest.sha256, signature file or policy.json is          *)
(* unreadable, ends in the verdict Unverified with an error finding.       *)
C19_StructuralEscalated ==
    (pc = "done" /\ HasRun("manifest_load") /\ StructuralFailure) =>
        /\ vs.result = "Unverified"
        /\ vs.errors # << >>

RECURSIVE KeysAscending(_)
KeysAscending(value) ==
    CASE value.t = "array" -> \A j \in 1..Len(value.a) : KeysAscending(value.a[j])
      [] value.t = "object" ->
            /\ \A j \in 1..(Len(value.map) - 1) : StrLess(value.map[j].k, value.map[j + 1].k)
            /\ \A j \in 1..Len(value.map) : KeysAscending(value.map[j].v)
      [] OTHER -> TRUE

(* the two values are equal but for the order of the members of objects;   *)
(* array elements are compared position by position                        *)
RECURSIVE SameValueUpToKeyOrder(_, _)
SameValueUpToKeyOrder(a, b) ==
    IF a.t # b.t THEN FALSE
    ELSE CASE a.t = "array" ->
                 /\ Len(a.a) = Len(b.a)
                 /\ \A j \in 1..Len(a.a) : SameValueUpToKeyOrder(a.a[j], b.a[j])
           [] a.t = "object" ->
                 /\ Len(a.map) = Len(b.map)
                 /\ \A j \in 1..Len(a.map) :
                       /\ HasKey(b.map, a.map[j].k)
                       /\ SameValueUpToKeyOrder(a.map[j].v, GetKey(b.map, a.map[j].k))
           [] OTHER -> a = b

(* C21: canonical_json of a value built with another key order is the text *)
(* of the value in its first order; the text has no whitespace token, and  *)
(* read back it has the keys of every object ascending in byte order and   *)
(* is the value itself but for key order, arrays position by position.     *)
C21_KeyOrderIndependent ==
    /\ (vs.bytes_reordered.some /\ vs.bytes_first.some) =>
           vs.bytes_reordered.val.text = vs.bytes_first.val
    /\ vs.bytes_reordered.some =>
           LET text == vs.bytes_reordered.val.text
               back == from_str_Value(text)
           IN /\ \A j \in 1..Len(text) : text[j].t # "ws"
              /\ back.some
              /\ KeysAscending(back.val)
              /\ SameValueUpToKeyOrder(back.val, to_value(inputs.val))

(* C21: a manifest with a nested ext object was canonicalized in both key  *)
(* orders, and the reordered value differs from the first                  *)
C21_Witness ==
    /\ vs.bytes_first.some
    /\ vs.bytes_reordered.some
    /\ inputs.val.ext.some
    /\ inputs.val.ext.val.t = "object"
    /\ Reordered(to_value(inputs.val), vs.bytes_reordered.val.order) # to_value(inputs.val)
    /\ ~KeysAscending(to_value(inputs.val))

(* the secret key text is one keygen returns *)
Generated(secret) == \E seed \in Seeds : keygen(seed).secret = secret

(* C22: sign fails on a secret that does not decode to 32 bytes and gives  *)
(* a signature for a generated one; verify of the signed bytes and that    *)
(* signature under the generated public key is true; verify of other bytes *)
(* or of a signature made by another key is false, not an error; verify is *)
(* an error exactly when the public key or the signature is malformed.     *)
C22_SignVerify ==
    /\ vs.signed.some =>
          /\ (inputs.val.secret.kind # "b64" \/ inputs.val.secret.len # 32) =>
                ~vs.signed.val.some
          /\ Generated(inputs.val.secret) => vs.signed.val.some
    /\ vs.verified.some =>
          LET c == vs.verified.val
              own == /\ vs.signed.val.some
                     /\ c.signature = vs.signed.val.val
                     /\ c.public_key = public_key_from_secret(inputs.val.secret.seed)
          IN /\ (own /\ c.data = inputs.val.data) => c.result = "true"
             /\ (c.public_key.kind = "pk" /\ c.signature.kind = "sig") =>
                   /\ c.result \in {"true", "false"}
                   /\ c.data # c.signature.data => c.result = "false"
                   /\ c.public_key # public_key_from_secret(c.signature.signer) =>
                         c.result = "false"
             /\ c.result = "err" <=> (c.public_key.kind # "pk" \/ c.signature.kind # "sig")

(* C22: the signature of a manifest's canonical bytes was verified against *)
(* the pretty-printed rendering, and the answer was false                  *)
C22_Witness ==
    /\ vs.signed.some
    /\ vs.signed.val.some
    /\ vs.verified.some
    /\ vs.verified.val.signature = vs.signed.val.val
    /\ vs.verified.val.public_key = public_key_from_secret(inputs.val.secret.seed)
    /\ inputs.val.data = canonical_manifest_bytes(BuildManifest(MinimalInputs))
    /\ vs.verified.val.data = to_string_pretty(BuildManifest(MinimalInputs))
    /\ vs.verified.val.result = "false"

(* the co-signature files of the bundle *)
CoSignatureFiles ==
    {p \in DOMAIN bundle :
        /\ Len(p) = 2
        /\ p[1] = N_signatures
        /\ p # P_builder_sig
        /\ bundle[p].type = "file"
        /\ CoSigPattern(p[2])}

(* C23: a run that went through every stage has read each co-signature     *)
(* file of the bundle, as checking it against a trusted key requires, and   *)
(* a co-signature file that is no signature at all leaves a finding.        *)
C23_CosignaturesChecked ==
    (pc = "done" /\ vs.result \in Verdicts /\ vs.ran = Stages) =>
        \A p \in CoSignatureFiles :
            /\ p \in vs.reads
            /\ bundle[p].data.kind # "sig" => vs.result # "Verified"

(* the bundle is as run_build has just written it *)
FreshlyWritten == pc = "assembled" /\ mods = {}

(* sha256 of the bytes of the file at p *)
HashOnDisk(p) == [kind |-> "hex", of |-> bundle[p].data]

(* C24: in a bundle the Assembler has written completely, the manifest's   *)
(* materials_lock_hash, environment_hash, outputs_hash and policy hash are *)
(* sha256 of the bytes of materials.lock.json, environment.json,           *)
(* outputs.json and policy.json of the bundle, and the manifest's public   *)
(* key is the one of the secret key that made the builder signature.       *)
C24_AssemblerLinkHashes ==
    FreshlyWritten =>
        LET m == bundle[P_manifest].data.val IN
        /\ bundle[P_manifest].data.kind = "json"
        /\ m.materials_lock_hash = HashOnDisk(P_materials)
        /\ m.environment_hash = HashOnDisk(P_environment)
        /\ m.outputs_hash = HashOnDisk(P_outputs)
        /\ m.policy_hash = HashOnDisk(P_policy)
        /\ bundle[P_builder_sig].data.kind = "sig"
        /\ m.public_key_ed25519 = [kind |-> "pk", of |-> bundle[P_builder_sig].data.signer]

(* C24: a bundle was written for a lockfile, an artifact and a policy that *)
(* is not the default one                                                  *)
C24_Witness ==
    /\ FreshlyWritten
    /\ inputs.val.lockfiles = 1
    /\ inputs.val.nartifacts = 1
    /\ inputs.val.policy # default_policy
    /\ bundle[P_policy].data = to_string_pretty(inputs.val.policy)

WarningsOn(kind, what) ==
    {i \in 1..Len(vs.warnings) : vs.warnings[i].kind = kind /\ vs.warnings[i].what = what}

ErrorsOn(what) ==
    {i \in 1..Len(vs.errors) :
        vs.errors[i].kind \in {"HashMismatch", "PolicyHashMismatch", "CannotRead"}
        /\ vs.errors[i].what = what}

(* the parsed content of link l that later checks use *)
ParsedField(l) ==
    CASE l.path = P_environment -> vs.environment
      [] l.path = P_materials -> vs.materials_lock
      [] l.path = P_outputs -> vs.outputs
      [] l.path = P_policy -> vs.policy

(* C25: for environment.json, materials.lock.json, outputs.json and        *)
(* policy.json, once the stage has the file's text: a parse warning for    *)
(* the file is recorded only when its hash matched the manifest; with a    *)
(* matching hash and content that does not parse there is exactly one      *)
(* warning and no error for the file and its parsed content is absent;     *)
(* with a hash that does not match there is an error for the file.         *)
C25_ParseWarningAfterMatch ==
    \A l \in Links :
        (LinkRead(l) /\ bundle[l.path].data.kind # "binary") =>
            LET matches == HashOnDisk(l.path) = vs.manifest.val[l.field]
                parses == /\ bundle[l.path].data.kind = "json"
                          /\ ParsedField(l).some
            IN /\ WarningsOn("ParseFailed", l.path) # {} => matches
               /\ (matches /\ ~parses) =>
                     /\ Cardinality(WarningsOn("ParseFailed", l.path)) = 1
                     /\ ErrorsOn(l.path) = {}
                     /\ ~ParsedField(l).some
               /\ ~matches => ErrorsOn(l.path) # {}

(* the artifacts declared in outputs.json as it is on disk, in order *)
DeclaredArtifacts ==
    IF bundle[P_outputs].data.kind = "json" /\ bundle[P_outputs].data.val.type = "Outputs"
    THEN bundle[P_outputs].data.val.artifacts
    ELSE << >>

ArtifactExists(a) == a \in DOMAIN workdir /\ workdir[a].exists

ArtifactKinds ==
    {"ArtifactAbsolute", "ArtifactTraversal", "ArtifactEscapes", "ArtifactHashMismatch"}

(* C26: once the artifact stage has run, for every declared artifact with  *)
(* a safe path: a file that exists was hashed and has an error exactly     *)
(* when its hash differs from the declared one; a file that does not exist *)
(* has a warning and no error.  A bundle changed in nothing, whose         *)
(* artifacts are all safe and absent, ends VerifiedWithVariance.           *)
C26_ArtifactRecheck ==
    HasRun("artifacts") =>
        LET arts == DeclaredArtifacts
            safe == {i \in 1..Len(arts) : ~Unsafe(arts[i].path)}
        IN /\ \A i \in safe :
                 IF ArtifactExists(arts[i].path)
                 THEN /\ arts[i].path \in vs.hashed
                      /\ HasError("ArtifactHashMismatch", arts[i].path)
                            <=> [kind |-> "hex", of |-> workdir[arts[i].path].data]
                                   # arts[i].sha256
                 ELSE /\ WarningsOn("ArtifactNotFound", arts[i].path) # {}
                      /\ \A k \in ArtifactKinds : ~HasError(k, arts[i].path)
           /\ ( /\ pc = "done"
                /\ mods \subseteq {Mod("artifact", << >>, FALSE)}
                /\ arts # << >>
                /\ \A i \in 1..Len(arts) : i \in safe /\ ~ArtifactExists(arts[i].path) )
              => vs.result = "VerifiedWithVariance"

(* C26: a bundle built for mode C from a clean tree, whose only artifact   *)
(* was deployed away, ended VerifiedWithVariance on that warning alone     *)
C26_Witness ==
    /\ pc = "done"
    /\ mods = {Mod("artifact", << >>, FALSE)}
    /\ DeclaredArtifacts # << >>
    /\ \A i \in 1..Len(DeclaredArtifacts) :
          /\ ~Unsafe(DeclaredArtifacts[i].path)
          /\ ~ArtifactExists(DeclaredArtifacts[i].path)
    /\ Len(vs.warnings) = 1
    /\ vs.warnings[1].kind = "ArtifactNotFound"
    /\ vs.result = "VerifiedWithVariance"

(* the policy that policy.json declares, when it parses *)
PolicyOnDisk ==
    IF bundle[P_policy].type = "file" THEN from_str("Policy", bundle[P_policy].data) ELSE None

(* C27: in a run that has gone through the enforcement stage, a manifest   *)
(* whose enforcement.mode_requested differs from the mode that policy.json *)
(* declares leaves an error and the verdict Unverified, and a manifest     *)
(* whose enforcement.mode_enforced is false leaves a warning naming the    *)
(* requested mode.                                                         *)
C27_EnforcementConsistency ==
    (HasRun("enforcement") /\ vs.manifest.val.enforcement.some) =>
        LET enf == vs.manifest.val.enforcement.val IN
        /\ (PolicyOnDisk.some /\ enf.mode_requested # PolicyOnDisk.val.mode) =>
              /\ HasErrorOf({"EnforcementMismatch"})
              /\ pc = "done" => vs.result = "Unverified"
        /\ ~enf.mode_enforced => WarningsOn("ModeNotEnforced", enf.mode_requested) # {}

ComplianceKinds == {"DirtyTree", "EnvironmentModeDiffers", "NoLockfileHashes"}

WarningsOf(kind) == {i \in 1..Len(vs.warnings) : vs.warnings[i].kind = kind}

(* what the files on disk say, when they parse *)
EnvironmentOnDisk ==
    IF bundle[P_environment].type = "file"
    THEN from_str("Environment", bundle[P_environment].data) ELSE None

MaterialsOnDisk ==
    IF bundle[P_materials].type = "file"
    THEN from_str("MaterialsLock", bundle[P_materials].data) ELSE None

DirtyOnDisk == vs.manifest.val.git_dirty

ModeDiffersOnDisk ==
    /\ PolicyOnDisk.some
    /\ EnvironmentOnDisk.some
    /\ EnvironmentOnDisk.val.mode # PolicyOnDisk.val.mode

NoLockfilesOnDisk ==
    /\ PolicyOnDisk.some
    /\ PolicyOnDisk.val.require_lockfile_hashes
    /\ MaterialsOnDisk.some
    /\ MaterialsOnDisk.val.lockfiles = 0

WalkAborts == ~walk_dir(bundle).ok

(* C29: a run that reached the closed-world walk of a bundle on which the  *)
(* walk aborts ends with the verdict Unverified.                           *)
C29_WalkAbortUnverified ==
    (pc = "done" /\ HasRun("closed_world") /\ WalkAborts) => vs.result = "Unverified"

(* the symlinks of the bundle whose resolved target is outside of it *)
EscapingSymlinks ==
    { p \in DOMAIN bundle :
        bundle[p].type = "symlink" /\ bundle[p].target \in {T_OutsideFile, T_DanglingParent} }

(* C30: a finished verification of a bundle directory holding a symlink    *)
(* whose resolved target lies outside the bundle, a dangling relative      *)
(* target through ".." included, returns Unverified.                       *)
C30_SymlinkSafety ==
    (pc = "done" /\ root = "dir" /\ EscapingSymlinks # {}) => vs.result = "Unverified"

(* stream s was read to its end, or to its first line that is no UTF-8:   *)
(* the pipe is empty and nothing more will be put into it                  *)
Drained(s) ==
    /\ vs.pipe[s] = << >>
    /\ vs.reader[s].at = "done"
    /\ \/ ~vs.child.open[s]
       \/ inputs.val.bad.some /\ inputs.val.bad.val.stream = s

(* the main flow is past both joins *)
PastJoins == vs.main \in {"collect", "wait", "returned"}

LinesOf(tagged, s) ==
    LET Labelled(t) == t.stream = s
        sel == SelectSeq(tagged, Labelled)
    IN [i \in 1..Len(sel) |-> sel[i].line]

(* C32: under every interleaving the lines received so far followed by the *)
(* lines still queued are the lines in their order of arrival on the       *)
(* channel; once the receive loop has ended the transcript is that order,  *)
(* and for each stream the transcript lines labelled with it are the lines *)
(* read from it, each once and in the order read.                          *)
C32_TranscriptContent ==
    pc = "capture" =>
        /\ vs.transcript \o vs.queue = vs.arrived
        /\ vs.main \in {"wait", "returned"} =>
              /\ vs.transcript = vs.arrived
              /\ \A s \in Streams : LinesOf(vs.transcript, s) = vs.reader[s].lines
              /\ Len(vs.transcript) = vs.reader["stdout"].nread + vs.reader["stderr"].nread
        /\ (vs.result.some /\ vs.result.val.ok) => vs.result.val.transcript = vs.transcript

(* C32: a transcript in which a stderr line stands between the two stdout  *)
(* lines, each stream in its own order                                     *)
C32_Witness ==
    /\ pc = "capture"
    /\ vs.main = "returned"
    /\ vs.result.some
    /\ vs.result.val.ok
    /\ Len(vs.transcript) = 3
    /\ vs.transcript[1].stream = "stdout"
    /\ vs.transcript[2].stream = "stderr"
    /\ vs.transcript[3].stream = "stdout"
    /\ LinesOf(vs.transcript, "stdout") = <<LineText(1), LineText(2)>>

(* the receive loop starts with every sender dropped *)
NoSenderAtCollect ==
    (pc = "capture" /\ vs.main = "collect") => senders(vs) = {}

(* C40: with the threads and the main flow scheduled fairly and a child    *)
(* that goes on to close both streams and to exit, every call of           *)
(* run_build_command returns, and its receive loop never starts while a    *)
(* sender is alive.                                                        *)
C40_CaptureReturns ==
    /\ []NoSenderAtCollect
    /\ (pc = "capture") ~> (pc = "capture" /\ vs.main = "returned")

(* C40: the call returned with every line of a child that printed         *)
(* MaxLines lines on each stream, more than a pipe holds                   *)
C40_Witness ==
    /\ pc = "capture"
    /\ vs.main = "returned"
    /\ \A s \in Streams : inputs.val.n[s] = MaxLines
    /\ ~inputs.val.bad.some
    /\ Len(vs.transcript) = 2 * MaxLines

Whitelist == AsciiLetters \cup AsciiDigits \cup {"-", "_", "."}

(* the key id with every character outside the whitelist replaced by "_" *)
Replaced(key_id) ==
    [i \in 1..Len(key_id) |-> IF key_id[i] \in Whitelist THEN key_id[i] ELSE "_"]

(* the stem of the file name in the claim's words *)
Stem(key_id) ==
    LET r == Replaced(key_id)
    IN IF r = << >> \/ r = <<".">> \/ r = <<".", ".">> \/ (Len(r) > 0 /\ r[1] = ".")
       THEN <<"k", "e", "y", "_">> \o r ELSE r

(* C33: for every key id the file name the Co-signer derives is the stem   *)
(* of the claim followed by .ed25519.sig; the stem is not empty, does not  *)
(* start with ".", holds no path separator, and the closed-world check     *)
(* reports nothing for the file of that name under signatures/.            *)
C33_CosigFileName ==
    (pc = "name" /\ vs.sig_filename.some) =>
        LET s == Stem(inputs.val)
        IN /\ vs.sig_filename.val = s \o SigSuffix
           /\ s # << >>
           /\ s[1] # "."
           /\ \A i \in 1..Len(s) : s[i] \in Whitelist
           /\ \A i \in 1..Len(s) : s[i] # "/"
           /\ vs.unexpected.some => vs.unexpected.val = << >>

(* C33: the key id ./ became key_._.ed25519.sig and the Verifier let the   *)
(* file pass                                                               *)
C33_Witness ==
    /\ pc = "name"
    /\ inputs.val = <<".", "/">>
    /\ vs.sig_filename = Some(<<"k", "e", "y", "_", ".", "_">> \o SigSuffix)
    /\ vs.unexpected = Some(<< >>)

(* the buffers of the function that secret-key bytes were decoded or      *)
(* copied into                                                             *)
KeyBuffers == {"sk_bytes", "sk_array"}

(* C34: when sign or public_key_from_secret has returned, on the success   *)
(* path as on the wrong-length path, neither sk_bytes nor sk_array holds   *)
(* key material; a buffer holds key material only between the statement    *)
(* that filled it and its zeroize.                                         *)
C34_SecretScrubbed ==
    pc = "scrub" =>
        /\ vs.at = "returned" =>
              /\ \A b \in KeyBuffers : ~vs.mem[b].secret.some
              /\ vs.result.some
              /\ vs.result.val.ok <=>
                    (decode(inputs.val.secret).some /\ decode(inputs.val.secret).val.len = 32)
        /\ vs.mem.sk_bytes.secret.some => vs.at \in {"check", "copy", "zero_bytes"}
        /\ vs.mem.sk_array.secret.some => vs.at \in {"zero_bytes", "from_bytes", "use", "zero_array"}

(* C34: sign returned an error for a 64-byte key after the decoded bytes   *)
(* had been in sk_bytes                                                    *)
C34_Witness ==
    /\ pc = "scrub"
    /\ inputs.val.fn = "sign"
    /\ decode(inputs.val.secret).some
    /\ decode(inputs.val.secret).val.len = 64
    /\ vs.at = "returned"
    /\ vs.result = Some([ok |-> FALSE])
    /\ vs.mem.sk_bytes = [len |-> 0, secret |-> None]

ShapeStages == {"path_sanity", "completeness", "closed_world", "symlink_safety"}

(* the bundle directory misses a required file, holds an entry outside the *)
(* permitted shape, or holds a symlink that resolves outside of it         *)
ShapeInvalid == ~RequiredPresent \/ HasUnpermitted \/ EscapingSymlinks # {}

(* C35: a finished run over a bundle directory of invalid shape has read   *)
(* and hashed no file of the bundle and has entered no stage after the     *)
(* four shape stages: no manifest load, no signature check, no artifact    *)
(* check.                                                                  *)
C35_ShapeGate ==
    (pc = "done" /\ root = "dir" /\ ShapeInvalid) =>
        /\ vs.reads = {}
        /\ vs.hashed = {}
        /\ \A i \in 1..Len(vs.ran) : vs.ran[i] \in ShapeStages

(* the only change since assembly is other content in transcript.txt *)
TranscriptReplaced ==
    /\ \E single \in BOOLEAN : mods = {Mod("tamper", P_transcript, single)}
    /\ bundle[P_transcript].type = "file"
    /\ bundle[P_transcript].data # WrittenBundle(inputs.val)[P_transcript].data

(* what run_verify returns for the bundle as it was assembled *)
VerdictAsAssembled == run_verify("dir", WrittenBundle(inputs.val), workdir)

(* C36: run_verify never reads transcript.txt, and a finished run over a   *)
(* bundle whose transcript.txt was given other content, text or not, ends  *)
(* with the result, the errors and the warnings of the run over the bundle *)
(* as assembled.                                                           *)
C36_TranscriptUnbound ==
    /\ pc \in {"verifying", "done"} => P_transcript \notin vs.reads
    /\ (pc = "done" /\ TranscriptReplaced) =>
          /\ vs.result = VerdictAsAssembled.result
          /\ vs.errors = VerdictAsAssembled.errors
          /\ vs.warnings = VerdictAsAssembled.warnings

(* C36: a bundle whose transcript.txt holds bytes that are no text was     *)
(* Verified                                                                *)
C36_Witness ==
    /\ pc = "done"
    /\ TranscriptReplaced
    /\ bundle[P_transcript].data = NotUtf8
    /\ vs.result = "Verified"

(* the bundle was rewritten and signed anew by another key holder *)
Resigned == mods = {Mod("resign", P_manifest, FALSE)}

Accepted == {"Verified", "VerifiedWithVariance"}

(* the verdict run_verify gives the same contents written under the       *)
(* builder's key                                                           *)
VerdictUnderBuilderKey ==
    run_verify("dir", WrittenBundle([inputs.val EXCEPT !.secret_key = "sk_builder"]), workdir)

DeclaredOnly == {"A_DETERMINISTIC", "B_LOCKED_NETWORK"}

(* C38: a finished run over an unmodified bundle assembled under a mode A  *)
(* or mode B policy carries the warning that the mode is not enforced and  *)
(* does not end Verified; an unmodified bundle that ends Verified was      *)
(* assembled under mode C.                                                 *)
C38_OnlyModeCVerified ==
    (pc = "done" /\ mods = {}) =>
        /\ inputs.val.policy.mode \in DeclaredOnly =>
              /\ ~vs.manifest.val.enforcement.val.mode_enforced
              /\ Cardinality(WarningsOf("ModeNotEnforced")) = 1
              /\ vs.result \in {"VerifiedWithVariance", "Unverified"}
        /\ vs.result = "Verified" => inputs.val.policy.mode = "C_WITNESSED_ND"

(* C38: a mode A bundle from a clean tree, verified unmodified, ended      *)
(* VerifiedWithVariance on the enforcement warning alone                   *)
C38_Witness ==
    /\ pc = "done"
    /\ mods = {}
    /\ inputs.val.policy.mode = "A_DETERMINISTIC"
    /\ vs.errors = << >>
    /\ vs.warnings = <<Finding("ModeNotEnforced", "A_DETERMINISTIC")>>
    /\ vs.result = "VerifiedWithVariance"

EnforcementKinds == {"EnforcementMismatch", "ModeNotEnforced"}

(* the manifest was written without an enforcement record *)
NoEnforcementRecord == \E p \in {P_manifest, P_policy} : mods = {Mod("forge", p, TRUE)}

(* policy.json was written as text that is no policy document, its hash in *)
(* the manifest                                                            *)
PolicyUnparsable == \E omit \in BOOLEAN : mods = {Mod("forge", P_policy, omit)}

(* C39: an enforcement error or warning is recorded only in a run whose    *)
(* manifest carries an enforcement record and whose policy.json parsed; a  *)
(* finished run over a consistently signed bundle without enforcement      *)
(* record, or with a policy.json that matches its hash and does not parse, *)
(* has passed the hash and signature checks and the enforcement stage and  *)
(* has no enforcement error and no enforcement warning, under every mode.  *)
C39_EnforcementStageSkipped ==
    /\ (HasErrorOf(EnforcementKinds) \/ HasWarningOf(EnforcementKinds)) =>
          /\ vs.manifest.val.enforcement.some
          /\ vs.policy.some
    /\ (pc = "done" /\ (NoEnforcementRecord \/ PolicyUnparsable)) =>
          /\ HasRun("enforcement")
          /\ NoEnforcementRecord => ~vs.manifest.val.enforcement.some
          /\ PolicyUnparsable => ~vs.policy.some
          /\ ~HasErrorOf({"SignatureInvalid", "SignatureError", "ManifestHashMismatch", "PolicyHashMismatch"})
          /\ ~HasErrorOf(EnforcementKinds)
          /\ ~HasWarningOf(EnforcementKinds)

(* C39: a mode A bundle whose manifest has no enforcement record ended     *)
(* Verified                                                                *)
C39_Witness ==
    /\ pc = "done"
    /\ NoEnforcementRecord
    /\ ~PolicyUnparsable
    /\ inputs.val.policy.mode = "A_DETERMINISTIC"
    /\ vs.result = "Verified"

=============================================================================
